---- MODULE Spec2Model ----
(***************************************************************************)
(* Model of the alignment fixer of the crystalreports repository           *)
(* (fix_alignment.py) running against the CRPE engine adapter              *)
(* (crystalreports/crpe_engine.py, crystalreports/report.py).              *)
(*                                                                         *)
(* The engine holds the layout objects; the fixer reads them once into     *)
(* `sections`, then runs Pass 1 (row alignment), Pass 1b (box pairs),      *)
(* Pass 2-4 (fonts), saves and closes.  Every engine call may fail.        *)
(***************************************************************************)
EXTENDS Integers, Sequences, FiniteSets, TLC

VARIABLES
    eng,        \* engine: handle -> object record (the engine's own geometry)
    height,     \* engine: section code -> section height
    fonts,      \* engine: handle -> font face set by PESetFont / PESetFieldFont
    sections,   \* fixer: the objects read at the start, in listing order
    pc,         \* fixer: position in the script
    run,        \* number of the current run of the script
    failures,   \* engine calls that have failed so far
    requests,   \* every move_object call made: its arguments
    rowlog,     \* every row found by Pass 1, with the target chosen
    fixes,      \* fix_alignment.fixes
    pairlog,    \* every box pair recognised by Pass 1b, with its roles
    box_fixes,  \* fix_alignment.box_fixes
    font_fixes, \* kopje_fixes, field_fixes and pf_fixes
    saves,      \* every rpt.save call made, with its outcome
    oplog,      \* every operation the script asked of the session, in order
    env,        \* the installed engine: DLL present, what it accepts
    rpt,        \* CrystalReport: _path, and whether _ole, _engine, _job are set
    engine,     \* CrpeEngine: whether _dll is set, _opened
    job,        \* CrpeJob: _path, _closed
    native,     \* every native call made, in order
    calls,      \* every call of the CrystalReport API made, with its result
    ctl,        \* the caller: before the with block, in its body, after it
    layout,     \* the section codes the engine answers the probe for
    found,      \* get_section_codes: the list `codes` being built
    area,       \* get_section_codes: the area the outer loop is at
    rgb,        \* rgb_to_colorref: the arguments
    colorref,   \* rgb_to_colorref: the results of the two definitions
    files,      \* the file system: path -> the metadata of the file there
    edits,      \* every set_metadata call made, with what it left behind
    pair,       \* two CrystalReport sessions of one process
    analysis    \* analyze_alignment: its rows and its `misaligned` lists

scriptvars == <<eng, height, fonts, sections, pc, run, failures, requests,
                rowlog, fixes, pairlog, box_fixes, font_fixes, saves, oplog>>

sessionvars == <<env, rpt, engine, job, native, calls, ctl>>

probevars == <<layout, found, area>>

colorvars == <<rgb, colorref>>

filevars == <<files, edits>>

pairvars == <<pair>>

analyzervars == <<analysis>>

vars == <<scriptvars, sessionvars, probevars, colorvars, filevars, pairvars,
          analyzervars>>

----------------------------------------------------------------------------
(* Program constants *)

TOLERANCE == 20
TARGET_LEFT == 129
TARGET_RIGHT == 10170
HEIGHT_SLACK == 20
CROSS_SECTION_BASE == 65536
PF_CODE == 42000
CONTAINER_TYPES == {"Box", "Line"}

(* Bounds of the model *)

MaxObjs == 4
MaxFailures == 2
MaxRuns == 2

----------------------------------------------------------------------------
(* Helpers *)

Abs(x) == IF x < 0 THEN -x ELSE x

RECURSIVE SumSeq(_)
SumSeq(s) == IF s = <<>> THEN 0 ELSE Head(s) + SumSeq(Tail(s))

Tops(row) == [i \in DOMAIN row |-> row[i].top]

Range(s) == {s[i] : i \in DOMAIN s}

----------------------------------------------------------------------------
(* sorted(group, key=lambda o: o.top): Python's sort is stable *)

RECURSIVE InsertByTop(_, _)
InsertByTop(o, s) ==
    IF s = <<>> THEN <<o>>
    ELSE IF o.top < Head(s).top THEN <<o>> \o s
         ELSE <<Head(s)>> \o InsertByTop(o, Tail(s))

\* the listing order, left as it is
UnsortedByTop(s) == s

RECURSIVE SortedByTop(_)
SortedByTop(s) ==
    IF s = <<>> THEN <<>>
    ELSE InsertByTop(s[Len(s)], SortedByTop(SubSeq(s, 1, Len(s) - 1)))

----------------------------------------------------------------------------
(* Pass 1 row grouping: the nested loop over sorted_objs with `used` *)

WithinDoubleTolerance(other, obj) == Abs(other.top - obj.top) <= 2 * TOLERANCE

WithinTolerance(other, obj) == Abs(other.top - obj.top) <= TOLERANCE

RECURSIVE InnerLoop(_, _, _, _)
InnerLoop(obj, rest, row, used) ==
    IF rest = <<>> THEN [row |-> row, used |-> used]
    ELSE LET other == Head(rest) IN
         IF other.handle \in used
         THEN InnerLoop(obj, Tail(rest), row, used)
         ELSE IF WithinTolerance(other, obj)
              THEN InnerLoop(obj, Tail(rest), Append(row, other),
                             used \cup {other.handle})
              ELSE InnerLoop(obj, Tail(rest), row, used)

KeepAnyRow(row) == TRUE

KeepRow(row) == Len(row) > 1

RECURSIVE OuterLoop(_, _, _, _)
OuterLoop(todo, sorted_objs, rows, used) ==
    IF todo = <<>> THEN rows
    ELSE LET obj == Head(todo) IN
         IF obj.handle \in used
         THEN OuterLoop(Tail(todo), sorted_objs, rows, used)
         ELSE LET r == InnerLoop(obj, sorted_objs, <<obj>>,
                                 used \cup {obj.handle})
              IN OuterLoop(Tail(todo), sorted_objs,
                           IF KeepRow(r.row) THEN Append(rows, r.row) ELSE rows,
                           r.used)

GroupRows(group) ==
    LET sorted_objs == SortedByTop(group)
    IN OuterLoop(sorted_objs, sorted_objs, <<>>, {})

----------------------------------------------------------------------------
(* Pass 1 target: Counter(tops).most_common(1), else round(mean) *)

Count(tops, v) == Cardinality({i \in DOMAIN tops : tops[i] = v})

\* Counter keeps first-occurrence order and most_common(1) is max() over it:
\* the first value, in that order, whose count is the greatest.
MostCommon(tops) ==
    LET best == CHOOSE i \in DOMAIN tops :
                    /\ \A j \in DOMAIN tops :
                           Count(tops, tops[j]) <= Count(tops, tops[i])
                    /\ \A j \in 1..(i - 1) :
                           Count(tops, tops[j]) < Count(tops, tops[i])
    IN [value |-> tops[best], count |-> Count(tops, tops[best])]

\* to nearest, an exact half upwards
PyRoundHalfUp(num, den) == (2 * num + den) \div (2 * den)

\* Python round(num / den) for den > 0: to nearest, an exact half to even
PyRound(num, den) ==
    LET q == num \div den
        r == num % den
    IN IF 2 * r < den THEN q
       ELSE IF 2 * r > den THEN q + 1
       ELSE IF q % 2 = 0 THEN q ELSE q + 1

TargetTop(tops) ==
    LET mc == MostCommon(tops)
    IN IF mc.count = 1 THEN PyRound(SumSeq(tops), Len(tops)) ELSE mc.value

UniformIfEmpty(tops) == Cardinality(Range(tops)) < 1

Uniform(tops) == Cardinality(Range(tops)) <= 1

----------------------------------------------------------------------------
(* Engine adapter: CrpeJob.move_object and the records behind it.          *)
(* An engine object is [object_type, section_code, left, top, right,       *)
(* bottom, secfield]; secfield is the section field of the box / line      *)
(* record (offset 12 of BoxObjectInfo, offset 4 of LineObjectInfo).        *)
(* A call ends "ok", "get_fail" (the read of the record is rejected) or    *)
(* "set_fail" (the write of the record is rejected); "no_grow" is a call   *)
(* that succeeds while the section height could not be read or written:    *)
(* _ensure_section_height checks neither result.                           *)

Outcomes == {"ok", "get_fail", "set_fail", "no_grow"}

\* _check raises on a rejected call
Rejected(outcome) == outcome \in {"get_fail", "set_fail"}

IsCross(o, section_code) ==
    section_code > 0 /\ o.secfield # section_code + CROSS_SECTION_BASE

EnsureSectionHeight(h, section_code, needed) ==
    IF section_code <= 0 THEN h
    ELSE IF needed > h[section_code]
         THEN [h EXCEPT ![section_code] = needed + HEIGHT_SLACK]
         ELSE h

\* The record written by _move_box: a cross-section box takes left and top
\* only, its x-extent and y-extent stay as they were.
BoxRecord(o, left, top, right, bottom, section_code) ==
    IF IsCross(o, section_code)
    THEN [o EXCEPT !.left = left, !.top = top]
    ELSE [o EXCEPT !.left = left, !.top = top,
                   !.right = right, !.bottom = bottom]

MoveBox(e, h, handle, left, top, right, bottom, section_code, outcome) ==
    IF outcome = "get_fail" THEN [eng |-> e, height |-> h, raised |-> TRUE]
    ELSE LET h2 == IF IsCross(e[handle], section_code) \/ outcome = "no_grow"
                   THEN h
                   ELSE EnsureSectionHeight(h, section_code, top + bottom)
             rec == BoxRecord(e[handle], left, top, right, bottom, section_code)
         IN IF outcome = "set_fail"
            THEN [eng |-> e, height |-> h2, raised |-> TRUE]
            ELSE [eng |-> [e EXCEPT ![handle] = rec], height |-> h2,
                  raised |-> FALSE]

\* a line record written whole, cross-section or not
LineRecordWhole(o, left, top, right, bottom, section_code) ==
    [o EXCEPT !.left = left, !.top = top, !.right = right, !.bottom = bottom]

LineRecord(o, left, top, right, bottom, section_code) ==
    IF IsCross(o, section_code)
    THEN [o EXCEPT !.left = left, !.top = top]
    ELSE [o EXCEPT !.left = left, !.top = top,
                   !.right = right, !.bottom = bottom]

MoveLine(e, h, handle, left, top, right, bottom, section_code, outcome) ==
    IF outcome = "get_fail" THEN [eng |-> e, height |-> h, raised |-> TRUE]
    ELSE LET h2 == IF IsCross(e[handle], section_code) \/ outcome = "no_grow"
                   THEN h
                   ELSE EnsureSectionHeight(h, section_code, top + bottom)
             rec == LineRecord(e[handle], left, top, right, bottom, section_code)
         IN IF outcome = "set_fail"
            THEN [eng |-> e, height |-> h2, raised |-> TRUE]
            ELSE [eng |-> [e EXCEPT ![handle] = rec], height |-> h2,
                  raised |-> FALSE]

MoveObject(e, h, handle, left, top, right, bottom, section_code, outcome) ==
    IF e[handle].object_type = "Box"
    THEN MoveBox(e, h, handle, left, top, right, bottom, section_code, outcome)
    ELSE IF e[handle].object_type = "Line"
    THEN MoveLine(e, h, handle, left, top, right, bottom, section_code, outcome)
    ELSE IF outcome \in {"ok", "no_grow"}
         THEN [eng |-> [e EXCEPT ![handle] =
                           [@ EXCEPT !.left = left, !.top = top,
                                     !.right = right, !.bottom = bottom]],
               height |-> h, raised |-> FALSE]
         ELSE [eng |-> e, height |-> h, raised |-> TRUE]

\* get_objects_in_section: the ReportObject records of one section, in the
\* engine's order
ReportObject(e, handle) ==
    [handle |-> handle,
     object_type |-> e[handle].object_type,
     section_code |-> e[handle].section_code,
     left |-> e[handle].left, top |-> e[handle].top,
     right |-> e[handle].right, bottom |-> e[handle].bottom]

GetObjectsInSection(e, section_code) ==
    LET all == [h \in DOMAIN e |-> ReportObject(e, h)]
    IN SelectSeq(all, LAMBDA o : o.section_code = section_code)

\* get_section_codes probes the areas and sub-sections in ascending order
SECTION_CODES == <<18000, 18050, 42000>>

RECURSIVE GetAllObjectsFrom(_, _)
GetAllObjectsFrom(e, codes) ==
    IF codes = <<>> THEN <<>>
    ELSE GetObjectsInSection(e, Head(codes)) \o GetAllObjectsFrom(e, Tail(codes))

GetAllObjects(e) == GetAllObjectsFrom(e, SECTION_CODES)

----------------------------------------------------------------------------
(* fix_alignment.py.  A pass threads a record st through its loops:        *)
(* the engine (eng, height), the number of engine calls made in the pass   *)
(* (calls), the failures so far and the logs.  oc[k] is the outcome of     *)
(* the k-th engine call of the pass.                                       *)

\* sections[code], and sorted(sections.keys())
SectionObjects(secs, code) == SelectSeq(secs, LAMBDA o : o.section_code = code)

SortedKeys(secs) ==
    SelectSeq(SECTION_CODES, LAMBDA c : \E i \in DOMAIN secs : secs[i].section_code = c)

IsContainer(o) == o.object_type \in CONTAINER_TYPES

Request(r, role, obj, left, top, right, bottom, code) ==
    [run |-> r, role |-> role, handle |-> obj.handle, left |-> left,
     top |-> top, right |-> right, bottom |-> bottom, code |-> code]

\* What the engine showed around a call: whether the call got as far as
\* _ensure_section_height (a Box or Line that is not cross-section, its
\* record read, section_code > 0), and the section's height before and
\* after the call
Observed(e, h, h2, handle, code, outcome) ==
    [ensured |-> /\ e[handle].object_type \in {"Box", "Line"}
                 /\ ~IsCross(e[handle], code)
                 /\ code > 0
                 /\ outcome # "get_fail",
     height_before |-> IF code \in DOMAIN h THEN h[code] ELSE 0,
     height_after |-> IF code \in DOMAIN h2 THEN h2[code] ELSE 0]

\* One entry of the operation log
Op(r, name) == [run |-> r, op |-> name]

\* move_object reads the object's record (PEGetObjectInfo and, for a Box
\* or Line, its own record) and, unless that read is rejected, writes it
MoveOps(r, outcome) ==
    IF outcome = "get_fail" THEN <<Op(r, "get_info")>>
    ELSE <<Op(r, "get_info"), Op(r, "set_info")>>

\* rpt.move_object(...) inside try / except: one engine call, one request
TryMove(st, r, role, obj, left, top, right, bottom, code, oc) ==
    LET k == st.calls + 1
        res == MoveObject(st.eng, st.height, obj.handle, left, top, right,
                          bottom, code, oc[k])
        req == Request(r, role, obj, left, top, right, bottom, code)
                   @@ [seen |-> Observed(st.eng, st.height, res.height,
                                         obj.handle, code, oc[k])]
    IN [st EXCEPT !.eng = res.eng, !.height = res.height, !.calls = k,
                  !.raised = res.raised,
                  !.failures = @ + (IF res.raised THEN 1 ELSE 0),
                  !.requests = Append(@, req),
                  !.oplog = @ \o MoveOps(r, oc[k])]

SameBottom(obj, target_top) == obj.bottom

NewBottom(obj, target_top) == obj.bottom + (target_top - obj.top)

NeedsMove(obj, target_top) == obj.top # target_top

\* for obj in row: if obj.top != target_top: move, then record
RECURSIVE MoveRow(_, _, _, _, _, _)
MoveRow(st, r, row, target_top, code, oc) ==
    IF row = <<>> THEN st
    ELSE LET obj == Head(row) IN
         IF NeedsMove(obj, target_top)
         THEN LET st2 == TryMove(st, r, "row", obj, obj.left, target_top,
                                 obj.right, NewBottom(obj, target_top), code, oc)
                  fix == [run |-> r, code |-> code, handle |-> obj.handle,
                          skip |-> st2.raised, from |-> obj.top,
                          to |-> target_top]
              IN MoveRow([st2 EXCEPT !.fixes = Append(@, fix)], r, Tail(row),
                         target_top, code, oc)
         ELSE MoveRow(st, r, Tail(row), target_top, code, oc)

\* for row in rows: skip a uniform row, else choose the target and move
RECURSIVE AlignRows(_, _, _, _, _)
AlignRows(st, r, rows, code, oc) ==
    IF rows = <<>> THEN st
    ELSE LET row == Head(rows)
             tops == Tops(row)
         IN IF Uniform(tops)
            THEN AlignRows([st EXCEPT !.rowlog = Append(@,
                               [run |-> r, code |-> code, row |-> row,
                                target |-> <<>>])],
                           r, Tail(rows), code, oc)
            ELSE LET target_top == TargetTop(tops)
                     st2 == [st EXCEPT !.rowlog = Append(@,
                               [run |-> r, code |-> code, row |-> row,
                                target |-> <<target_top>>])]
                 IN AlignRows(MoveRow(st2, r, row, target_top, code, oc),
                              r, Tail(rows), code, oc)

\* for group_name, group in [("container", ...), ("content", ...)]
AlignGroup(st, r, group, code, oc) ==
    IF Len(group) < 2 THEN st
    ELSE AlignRows(st, r, GroupRows(group), code, oc)

Pass1Section(st, r, objects, code, oc) ==
    IF Len(objects) < 2 THEN st
    ELSE LET containers == SelectSeq(objects, IsContainer)
             content == SelectSeq(objects, LAMBDA o : ~IsContainer(o))
         IN AlignGroup(AlignGroup(st, r, containers, code, oc),
                       r, content, code, oc)

RECURSIVE Pass1Sections(_, _, _, _, _)
Pass1Sections(st, r, secs, codes, oc) ==
    IF codes = <<>> THEN st
    ELSE Pass1Sections(
             Pass1Section(st, r, SectionObjects(secs, Head(codes)), Head(codes), oc),
             r, secs, Tail(codes), oc)

----------------------------------------------------------------------------
(* Pass 1b: box pairs *)

IsBox(o) == o.object_type = "Box"

BoxHeight(b) == b.bottom - b.top

\* max(top_two, key=...) and min(top_two, key=...): the first of equal keys
MaxByHeight(two) ==
    IF BoxHeight(two[2]) > BoxHeight(two[1]) THEN two[2] ELSE two[1]

MinByHeight(two) ==
    IF BoxHeight(two[2]) < BoxHeight(two[1]) THEN two[2] ELSE two[1]

Layered(kopje, content) == content.top < kopje.top

BoxFix(r, code, what, skip) ==
    [run |-> r, code |-> code, what |-> what, skip |-> skip]

NeedFixContentBoth(kopje, content) ==
    /\ content.top - kopje.bottom # 0
    /\ (content.left # TARGET_LEFT \/ content.right # TARGET_RIGHT)

NeedFixContent(kopje, content) ==
    \/ content.top - kopje.bottom # 0
    \/ content.left # TARGET_LEFT
    \/ content.right # TARGET_RIGHT

\* The re-read of the content box after its move: get_objects_in_section
\* is one more engine call inside the same try; when it raises, the except
\* branch records the skip and effective_right keeps its initial value.
ReRead(st, r, content, code, oc) ==
    LET k == st.calls + 1
        bad == Rejected(oc[k])
        actual == SelectSeq(GetObjectsInSection(st.eng, code),
                            LAMBDA o : o.handle = content.handle)
        eff == IF ~bad /\ actual # <<>> /\ actual[1].right # TARGET_RIGHT
               THEN actual[1].right ELSE TARGET_RIGHT
    IN [st EXCEPT !.calls = k, !.raised = bad,
                  !.failures = @ + (IF bad THEN 1 ELSE 0),
                  !.effective_right = eff,
                  !.oplog = Append(@, Op(r, "get_objects_in_section"))]

\* The content box: move it under the kopje box, then read it again
FixContent(st, r, kopje, content, code, oc) ==
    IF NeedFixContent(kopje, content)
    THEN LET new_top == kopje.bottom
             hgt == content.bottom - content.top
             st2 == TryMove([st EXCEPT !.effective_right = TARGET_RIGHT],
                            r, "content", content, TARGET_LEFT, new_top,
                            TARGET_RIGHT, new_top + hgt, code, oc)
             st3 == IF st2.raised THEN st2 ELSE ReRead(st2, r, content, code, oc)
         IN [st3 EXCEPT !.box_fixes = Append(@, BoxFix(r, code, "content",
                                                       st3.raised))]
    ELSE [st EXCEPT !.effective_right = TARGET_RIGHT]

\* The kopje box and the inner box: left / right to the effective edge
FixEdges(st, r, role, box, code, oc) ==
    IF box.left # TARGET_LEFT \/ box.right # st.effective_right
    THEN LET st2 == TryMove(st, r, role, box, TARGET_LEFT, box.top,
                            st.effective_right, box.bottom, code, oc)
         IN [st2 EXCEPT !.box_fixes = Append(@, BoxFix(r, code, role,
                                                       st2.raised))]
    ELSE st

Normalize(st, r, kopje, inner, content, code, oc) ==
    LET st1 == [st EXCEPT !.pairlog = Append(@,
                   [run |-> r, code |-> code, kopje |-> kopje,
                    inner |-> inner, content |-> content])]
        st2 == FixContent(st1, r, kopje, content, code, oc)
        st3 == FixEdges(st2, r, "kopje", kopje, code, oc)
    IN IF inner = <<>> THEN st3
       ELSE FixEdges(st3, r, "inner", inner[1], code, oc)

Pass1bSection(st, r, objects, code, oc) ==
    LET boxes == SortedByTop(SelectSeq(objects, IsBox))
    IN IF Len(boxes) < 2 THEN st
       ELSE IF Len(boxes) = 3
       THEN LET top_two == SubSeq(boxes, 1, 2)
            IN Normalize(st, r, MaxByHeight(top_two), <<MinByHeight(top_two)>>,
                         boxes[3], code, oc)
       ELSE IF Len(boxes) = 2
       THEN IF Layered(boxes[1], boxes[2])
            THEN [st EXCEPT !.box_fixes =
                     Append(@, BoxFix(r, code, "layered", TRUE))]
            ELSE Normalize(st, r, boxes[1], <<>>, boxes[2], code, oc)
       ELSE st

RECURSIVE Pass1bSections(_, _, _, _, _)
Pass1bSections(st, r, secs, codes, oc) ==
    IF codes = <<>> THEN st
    ELSE Pass1bSections(
             Pass1bSection(st, r, SectionObjects(secs, Head(codes)), Head(codes), oc),
             r, secs, Tail(codes), oc)

----------------------------------------------------------------------------
(* Pass 2 - 4: fonts.  PESetFont sets the face of every object of the      *)
(* scope's type in the section; PESetFieldFont that of one object.         *)

\* a record that never says SKIP
FontFixNoSkip(r, pass, code, handle, skip) ==
    [run |-> r, pass |-> pass, code |-> code, handle |-> handle, skip |-> FALSE]

FontFix(r, pass, code, handle, skip) ==
    [run |-> r, pass |-> pass, code |-> code, handle |-> handle, skip |-> skip]

SetSectionFont(f, e, code, type, face) ==
    [h \in DOMAIN f |->
        IF e[h].section_code = code /\ e[h].object_type = type
        THEN face ELSE f[h]]

\* Pass 2 (Text, Calibri 9, scope 2) and Pass 3 (Field, Arial 8, scope 1)
RECURSIVE FontSections(_, _, _, _, _, _, _)
FontSections(st, r, pass, type, face, secs_codes, oc) ==
    IF secs_codes.codes = <<>> THEN st
    ELSE LET code == Head(secs_codes.codes)
             rest == [secs_codes EXCEPT !.codes = Tail(@)]
             objs == SelectSeq(SectionObjects(secs_codes.secs, code),
                               LAMBDA o : o.object_type = type)
         IN IF objs = <<>>
            THEN FontSections(st, r, pass, type, face, rest, oc)
            ELSE LET k == st.calls + 1
                     bad == Rejected(oc[k])
                     st2 == [st EXCEPT
                               !.calls = k,
                               !.failures = @ + (IF bad THEN 1 ELSE 0),
                               !.fonts = IF bad THEN @
                                         ELSE SetSectionFont(@, st.eng, code,
                                                             type, face),
                               !.font_fixes = Append(@,
                                   FontFix(r, pass, code, 0, bad)),
                               !.oplog = Append(@, Op(r, "set_section_font"))]
                 IN FontSections(st2, r, pass, type, face, rest, oc)

\* Pass 4: the page footer's fields, one set_field_font call each
RECURSIVE FieldFonts(_, _, _, _)
FieldFonts(st, r, objs, oc) ==
    IF objs = <<>> THEN st
    ELSE LET obj == Head(objs) IN
         IF obj.object_type = "Field"
         THEN LET k == st.calls + 1
                  bad == Rejected(oc[k])
                  st2 == [st EXCEPT
                            !.calls = k,
                            !.failures = @ + (IF bad THEN 1 ELSE 0),
                            !.fonts = IF bad THEN @
                                      ELSE [@ EXCEPT ![obj.handle] = "Arial 8"],
                            !.font_fixes = Append(@,
                                FontFix(r, "4", PF_CODE, obj.handle, bad)),
                            !.oplog = Append(@, Op(r, "set_field_font"))]
              IN FieldFonts(st2, r, Tail(objs), oc)
         ELSE FieldFonts(st, r, Tail(objs), oc)

----------------------------------------------------------------------------
(* The script as a state machine *)

PassState ==
    [eng |-> eng, height |-> height, fonts |-> fonts, calls |-> 0,
     raised |-> FALSE, effective_right |-> TARGET_RIGHT,
     failures |-> failures, requests |-> requests, rowlog |-> rowlog,
     fixes |-> fixes, pairlog |-> pairlog, box_fixes |-> box_fixes,
     font_fixes |-> font_fixes, oplog |-> oplog]

\* The outcomes of the n engine calls a pass may make, at most `budget` of
\* them failures
OutcomeChoices(n, budget) ==
    {oc \in [1..n -> Outcomes] :
        Cardinality({k \in DOMAIN oc : oc[k] # "ok"}) <= budget}

AllOk == [k \in 1..Len(eng) |-> "ok"]

\* Pass 1b makes at most four calls (content, its re-read, kopje, inner)
\* per box pair
PairCalls ==
    4 * Cardinality({c \in Range(SECTION_CODES) :
                        Len(SelectSeq(SectionObjects(sections, c),
                                      LAMBDA o : o.object_type = "Box")) \in {2, 3}})

Commit(st, next) ==
    /\ eng' = st.eng
    /\ height' = st.height
    /\ fonts' = st.fonts
    /\ failures' = st.failures
    /\ requests' = st.requests
    /\ rowlog' = st.rowlog
    /\ fixes' = st.fixes
    /\ pairlog' = st.pairlog
    /\ box_fixes' = st.box_fixes
    /\ font_fixes' = st.font_fixes
    /\ oplog' = st.oplog
    /\ pc' = next
    /\ UNCHANGED <<sections, run, saves>>
    /\ UNCHANGED <<sessionvars, probevars, colorvars,
                   filevars, pairvars, analyzervars>>

\* with CrystalReport(INPUT) as rpt: sections[obj.section_code].append(obj)
ReadObjects ==
    /\ pc = "open"
    /\ sections' = GetAllObjects(eng)
    /\ oplog' = oplog \o <<Op(run, "open"), Op(run, "objects")>>
    /\ pc' = "pass1"
    /\ UNCHANGED <<eng, height, fonts, run, failures, requests, rowlog, fixes,
                   pairlog, box_fixes, font_fixes, saves>>
    /\ UNCHANGED <<sessionvars, probevars, colorvars,
                   filevars, pairvars, analyzervars>>

Pass1 ==
    /\ pc = "pass1"
    /\ LET n == Pass1Sections(PassState, run, sections, SortedKeys(sections),
                              AllOk).calls
       IN \E oc \in OutcomeChoices(n, MaxFailures - failures) :
              Commit(Pass1Sections(PassState, run, sections,
                                   SortedKeys(sections), oc),
                     "pass1b")

Pass1b ==
    /\ pc = "pass1b"
    /\ \E oc \in OutcomeChoices(PairCalls, MaxFailures - failures) :
           Commit(Pass1bSections(PassState, run, sections, SortedKeys(sections), oc),
                  "pass2")

Pass2 ==
    /\ pc = "pass2"
    /\ LET sc == [secs |-> sections, codes |-> SortedKeys(sections)]
           n == FontSections(PassState, run, "2", "Text", "Calibri 9", sc,
                             AllOk).calls
       IN \E oc \in OutcomeChoices(n, MaxFailures - failures) :
              Commit(FontSections(PassState, run, "2", "Text", "Calibri 9", sc, oc),
                     "pass3")

Pass3 ==
    /\ pc = "pass3"
    /\ LET sc == [secs |-> sections, codes |-> SortedKeys(sections)]
           n == FontSections(PassState, run, "3", "Field", "Arial 8", sc,
                             AllOk).calls
       IN \E oc \in OutcomeChoices(n, MaxFailures - failures) :
              Commit(FontSections(PassState, run, "3", "Field", "Arial 8", sc, oc),
                     "pass4")

Pass4 ==
    /\ pc = "pass4"
    /\ LET n == FieldFonts(PassState, run, SectionObjects(sections, PF_CODE),
                           AllOk).calls
       IN \E oc \in OutcomeChoices(n, MaxFailures - failures) :
              Commit(FieldFonts(PassState, run, SectionObjects(sections, PF_CODE), oc),
                     "save")

\* a script that saves twice
SaveAsTwice(log, r) == log \o <<Op(r, "save"), Op(r, "save")>>

\* rpt.save(TEMP) is asked of the session once
SaveAs(log, r) == Append(log, Op(r, "save"))

\* rpt.save(TEMP): an error leaves the with block, which closes the session
Save ==
    /\ pc = "save"
    /\ \E ok \in BOOLEAN :
           /\ ok \/ failures < MaxFailures
           /\ saves' = Append(saves, [run |-> run, ok |-> ok])
           /\ failures' = failures + (IF ok THEN 0 ELSE 1)
    /\ oplog' = SaveAs(oplog, run)
    /\ pc' = "close"
    /\ UNCHANGED <<eng, height, fonts, sections, run, requests, rowlog, fixes,
                   pairlog, box_fixes, font_fixes>>
    /\ UNCHANGED <<sessionvars, probevars, colorvars,
                   filevars, pairvars, analyzervars>>

\* leaving the with block
Close ==
    /\ pc = "close"
    /\ pc' = "done"
    /\ oplog' = Append(oplog, Op(run, "close"))
    /\ UNCHANGED <<eng, height, fonts, sections, run, failures, requests,
                   rowlog, fixes, pairlog, box_fixes, font_fixes, saves>>
    /\ UNCHANGED <<sessionvars, probevars, colorvars,
                   filevars, pairvars, analyzervars>>

\* The script run again on the report it left behind
Rerun ==
    /\ pc = "done"
    /\ run < MaxRuns
    /\ run' = run + 1
    /\ sections' = <<>>
    /\ pc' = "open"
    /\ UNCHANGED <<eng, height, fonts, failures, requests, rowlog, fixes,
                   pairlog, box_fixes, font_fixes, saves, oplog>>
    /\ UNCHANGED <<sessionvars, probevars, colorvars,
                   filevars, pairvars, analyzervars>>

Next ==
    \/ ReadObjects
    \/ Pass1
    \/ Pass1b
    \/ Pass2
    \/ Pass3
    \/ Pass4
    \/ Save
    \/ Close

NextTwice ==
    \/ Next
    \/ Rerun

----------------------------------------------------------------------------
(* Reports the engine may hold.  The listing of get_all_objects goes       *)
(* section by section; the two classes of a section are grouped apart, so  *)
(* each report lists a section's content objects before its containers.    *)

RowTops == {100, 105, 115, 130}

RowCatalog ==
    [object_type : {"Field"}, section_code : {18000}, top : RowTops]
    \cup [object_type : {"Box"}, section_code : {18000}, top : {100, 115}]
    \cup {[object_type |-> "Field", section_code |-> 42000, top |-> 100],
          [object_type |-> "Text", section_code |-> 42000, top |-> 115]}

ListRank(t) ==
    2 * t.section_code + (IF t.object_type \in CONTAINER_TYPES THEN 1 ELSE 0)

Listed(tpl) ==
    \A i \in 1..(Len(tpl) - 1) : ListRank(tpl[i]) <= ListRank(tpl[i + 1])

\* Object h of a row report: its own left / right and height
PlaceRow(t, h) ==
    [object_type |-> t.object_type, section_code |-> t.section_code,
     left |-> 300 * h, top |-> t.top, right |-> 300 * h + 250,
     bottom |-> t.top + 180 + 10 * h,
     secfield |-> t.section_code + CROSS_SECTION_BASE]

\* No session of the library, no probe and no conversion under way
NoSession ==
    /\ env = [dll |-> FALSE, engine_ok |-> FALSE, job_ok |-> FALSE,
              has_save |-> FALSE]
    /\ rpt = [path |-> "", ole |-> FALSE, engine |-> FALSE, job |-> FALSE]
    /\ engine = [dll |-> FALSE, opened |-> FALSE]
    /\ job = [path |-> "", closed |-> FALSE]
    /\ native = <<>>
    /\ calls = <<>>
    /\ ctl = "none"

NoProbe ==
    /\ layout = {}
    /\ found = <<>>
    /\ area = 0

NoColor ==
    /\ rgb = <<0, 0, 0>>
    /\ colorref = <<>>

\* No metadata edit, no second session and no analysis under way
NoFiles ==
    /\ files = <<>>
    /\ edits = <<>>

NoPair == pair = <<>>

NoAnalysis == analysis = <<>>

InitScript ==
    /\ NoSession
    /\ NoProbe
    /\ NoColor
    /\ NoFiles
    /\ NoPair
    /\ NoAnalysis
    /\ height = [c \in Range(SECTION_CODES) |-> IF c = 18050 THEN 700 ELSE 1000]
    /\ fonts = [h \in DOMAIN eng |-> "none"]
    /\ sections = <<>>
    /\ pc = "open"
    /\ run = 1
    /\ failures = 0
    /\ requests = <<>>
    /\ rowlog = <<>>
    /\ fixes = <<>>
    /\ pairlog = <<>>
    /\ box_fixes = <<>>
    /\ font_fixes = <<>>
    /\ saves = <<>>
    /\ oplog = <<>>

Init ==
    /\ \E n \in 1..MaxObjs : \E tpl \in [1..n -> RowCatalog] :
           /\ Listed(tpl)
           /\ eng = [h \in 1..n |-> PlaceRow(tpl[h], h)]
    /\ InitScript

Spec == Init /\ [][Next]_vars

SpecTwice == Init /\ [][NextTwice]_vars

----------------------------------------------------------------------------
(* Box reports: the boxes of one section (GH#1), in any listing order.     *)
(* A header at 100..300, an inner box off the anchors, an inverted box,    *)
(* and content boxes with gap 0 and gap 10, one of them cross-section.     *)

Box(left, top, right, bottom, secfield) ==
    [object_type |-> "Box", section_code |-> 18050, left |-> left,
     top |-> top, right |-> right, bottom |-> bottom, secfield |-> secfield]

BoxCatalog ==
    {Box(129, 100, 10170, 300, 18050 + CROSS_SECTION_BASE),
     Box(200, 110, 9000, 250, 18050 + CROSS_SECTION_BASE),
     Box(129, 290, 10170, 20, 18050 + CROSS_SECTION_BASE),
     Box(129, 300, 10170, 600, 18050 + CROSS_SECTION_BASE),
     Box(200, 310, 9000, 700, 18050 + CROSS_SECTION_BASE),
     Box(200, 310, 9000, 700, 0)}

InitBox ==
    /\ \E n \in 1..MaxObjs : eng \in [1..n -> BoxCatalog]
    /\ InitScript

SpecBox == InitBox /\ [][Next]_vars

----------------------------------------------------------------------------
(* The library session: a caller of CrystalReport (report.py) over          *)
(* CrpeEngine and CrpeJob (crpe_engine.py).  `native` lists the native      *)
(* calls in order; `calls` lists the API calls with the exception each      *)
(* raised to the caller and what caused it.                                 *)

MaxCalls == 2

\* No script is running
NoScript ==
    /\ eng = <<>>
    /\ height = [c \in Range(SECTION_CODES) |-> 1000]
    /\ fonts = <<>>
    /\ sections = <<>>
    /\ pc = "none"
    /\ run = 1
    /\ failures = 0
    /\ requests = <<>>
    /\ rowlog = <<>>
    /\ fixes = <<>>
    /\ pairlog = <<>>
    /\ box_fixes = <<>>
    /\ font_fixes = <<>>
    /\ saves = <<>>
    /\ oplog = <<>>

\* The paths a caller passes; "None" stands for None
RawPaths == {"in.rpt", "sub/../in.rpt", "out.rpt"}

\* a path taken as it is written
Unresolved(p) == p

\* Path(p).resolve() in the working directory /work
Resolve(p) ==
    CASE p \in {"in.rpt", "sub/../in.rpt", "/work/in.rpt"} -> "/work/in.rpt"
      [] p \in {"out.rpt", "/work/out.rpt"} -> "/work/out.rpt"
      [] OTHER -> p

\* The installed engine: no DLL; a DLL whose PEOpenEngine fails; one whose
\* PEOpenPrintJob fails; one without and one with the PESavePrintJob entry
Builds ==
    {[dll |-> FALSE, engine_ok |-> FALSE, job_ok |-> FALSE, has_save |-> FALSE],
     [dll |-> TRUE, engine_ok |-> FALSE, job_ok |-> FALSE, has_save |-> FALSE],
     [dll |-> TRUE, engine_ok |-> TRUE, job_ok |-> FALSE, has_save |-> FALSE],
     [dll |-> TRUE, engine_ok |-> TRUE, job_ok |-> TRUE, has_save |-> FALSE],
     [dll |-> TRUE, engine_ok |-> TRUE, job_ok |-> TRUE, has_save |-> TRUE]}

Native(fn, arg, dest) == [fn |-> fn, arg |-> arg, dest |-> dest]

Call(op, arg, raised, cause) ==
    [op |-> op, arg |-> arg, raised |-> raised, cause |-> cause]

\* CrpeEngine() then CrpeEngine.open(path): _load_dll, PEOpenEngine,
\* PEOpenPrintJob, PESetDialogParentWindowHandle, CrpeJob(dll, handle, path)
EngineOpen(build, path, nat) ==
    LET none == [path |-> "", closed |-> FALSE] IN
    IF ~build.dll
    THEN [ok |-> FALSE, engine |-> [dll |-> FALSE, opened |-> FALSE],
          job |-> none, native |-> nat]
    ELSE LET nat1 == Append(nat, Native("PEOpenEngine", "", "")) IN
         IF ~build.engine_ok
         THEN [ok |-> FALSE, engine |-> [dll |-> TRUE, opened |-> FALSE],
               job |-> none, native |-> nat1]
         ELSE LET rpt_path == Resolve(path)
                  nat2 == Append(nat1, Native("PEOpenPrintJob", rpt_path, ""))
              IN IF ~build.job_ok
                 THEN [ok |-> FALSE, engine |-> [dll |-> TRUE, opened |-> TRUE],
                       job |-> none, native |-> nat2]
                 ELSE [ok |-> TRUE, engine |-> [dll |-> TRUE, opened |-> TRUE],
                       job |-> [path |-> rpt_path, closed |-> FALSE],
                       native |-> Append(nat2,
                           Native("PESetDialogParentWindowHandle", "", ""))]

\* CrystalReport.__init__: the OLE file is opened first; any error of the
\* engine layer is swallowed and leaves _engine and _job unset
Construct ==
    /\ ctl = "new"
    /\ \E path \in {"in.rpt"} : \E use_sdk \in BOOLEAN :
           LET nat0 == Append(native, Native("OleFileIO", Resolve(path), ""))
               r == IF use_sdk THEN EngineOpen(env, Resolve(path), nat0)
                    ELSE [ok |-> FALSE, engine |-> engine, job |-> job,
                          native |-> nat0]
           IN /\ rpt' = [path |-> Resolve(path), ole |-> TRUE,
                         engine |-> r.ok, job |-> r.ok]
              /\ engine' = r.engine
              /\ job' = r.job
              /\ native' = r.native
    /\ ctl' = "body"
    /\ UNCHANGED <<env, calls, scriptvars, probevars, colorvars,
                   filevars, pairvars, analyzervars>>

has_sdk(r) == r.job

\* a check that lets every call through
RequireNothing(r) == FALSE

\* _require_sdk raises SDKNotAvailableError
RequireSdkRaises(r) == ~has_sdk(r)

\* The engine-layer API of CrystalReport and the first native call each
\* makes; the calls whose result goes through _check
EngineOps ==
    {"tables", "formulas", "sql_query", "parameters", "sections",
     "sort_fields", "n_groups", "section_codes", "objects",
     "get_objects_in_section", "set_table_connection", "set_formula",
     "set_sql_query", "move_object", "set_field_font", "set_section_font",
     "set_object_font_color", "delete_object", "get_section_height",
     "set_section_height", "get_margins", "set_margins"}

NativeOf(op) ==
    CASE op = "tables" -> "PEGetNTables"
      [] op = "formulas" -> "PEGetNFormulas"
      [] op = "sql_query" -> "PEGetSQLQueryEx"
      [] op = "parameters" -> "PEGetNParameterFields"
      [] op = "sections" -> "PEGetNSections"
      [] op = "sort_fields" -> "PEGetNSortFields"
      [] op = "n_groups" -> "PEGetNGroups"
      [] op = "section_codes" -> "PEGetSectionFormat"
      [] op = "objects" -> "PEGetSectionFormat"
      [] op = "get_objects_in_section" -> "PEGetNObjectsInSection"
      [] op = "set_table_connection" -> "PEGetNthTableLocation"
      [] op = "set_formula" -> "PESetFormula"
      [] op = "set_sql_query" -> "PESetSQLQuery"
      [] op = "move_object" -> "PEGetObjectInfo"
      [] op = "set_field_font" -> "PESetFieldFont"
      [] op = "set_section_font" -> "PESetFont"
      [] op = "set_object_font_color" -> "PESetObjectFontColor"
      [] op = "delete_object" -> "PEDeleteObject"
      [] op = "get_section_height" -> "PEGetSectionHeight"
      [] op = "set_section_height" -> "PESetSectionHeight"
      [] op = "get_margins" -> "PEGetMargins"
      [] op = "set_margins" -> "PESetMargins"

CheckedOps ==
    {"set_table_connection", "set_formula", "set_sql_query", "move_object",
     "set_field_font", "set_section_font", "set_object_font_color",
     "delete_object", "get_section_height", "set_section_height",
     "get_margins", "set_margins"}

InSession == ctl \in {"body", "exited"} /\ Len(calls) < MaxCalls

\* self._require_sdk(); self._job.<op>(...)
EngineCall ==
    /\ InSession
    /\ \E op \in EngineOps : \E ok \in BOOLEAN :
           IF RequireSdkRaises(rpt)
           THEN /\ ok
                /\ calls' = Append(calls, Call(op, "", "SDKNotAvailableError",
                                               "no_sdk"))
                /\ native' = native
           ELSE /\ ok \/ op \in CheckedOps
                /\ native' = Append(native, Native(NativeOf(op), "", ""))
                /\ calls' = Append(calls,
                       IF ok THEN Call(op, "", "none", "none")
                       ELSE Call(op, "", "CrystalReportsError", "rejected"))
    /\ UNCHANGED <<env, rpt, engine, job, ctl, scriptvars, probevars, colorvars,
                   filevars, pairvars, analyzervars>>

\* The OLE-layer properties: self._ole.<op>()
OleOps == {"metadata", "streams", "embedded_images", "subreports"}

OleCall ==
    /\ InSession
    /\ \E op \in OleOps :
           calls' = Append(calls,
               IF rpt.ole THEN Call(op, "", "none", "none")
               ELSE Call(op, "", "AttributeError", "closed"))
    /\ UNCHANGED <<env, rpt, engine, job, native, ctl, scriptvars, probevars,
                   colorvars, filevars, pairvars, analyzervars>>

\* CrpeJob.save(output_path): what it raises and the native call it makes
JobSave(build, j, output_path, ok) ==
    IF output_path = "None"
    THEN [raised |-> "CrystalReportsError", cause |-> "overwrite", native |-> <<>>]
    ELSE LET dest == Resolve(output_path) IN
         IF dest = j.path
         THEN [raised |-> "CrystalReportsError", cause |-> "overwrite",
               native |-> <<>>]
         ELSE IF ~build.has_save
         THEN [raised |-> "CrystalReportsError", cause |-> "absent",
               native |-> <<>>]
         ELSE [raised |-> IF ok THEN "none" ELSE "CrystalReportsError",
               cause |-> IF ok THEN "none" ELSE "rejected",
               native |-> <<Native("PESavePrintJob", dest, "")>>]

\* OleParser.save(output_path): a copy when the path differs as written
OleSave(r, output_path) ==
    IF ~r.ole
    THEN [raised |-> "AttributeError", cause |-> "closed", native |-> <<>>]
    ELSE IF output_path # "None" /\ output_path # r.path
    THEN [raised |-> IF Resolve(output_path) = r.path THEN "SameFileError"
                     ELSE "none",
          cause |-> IF Resolve(output_path) = r.path THEN "same_file"
                    ELSE "none",
          native |-> <<Native("shutil.copy2", r.path, output_path)>>]
    ELSE [raised |-> "none", cause |-> "none", native |-> <<>>]

\* CrystalReport.save(output_path)
SaveCall ==
    /\ InSession
    /\ \E output_path \in RawPaths \cup {"None"} : \E ok \in BOOLEAN :
           LET res == IF has_sdk(rpt) THEN JobSave(env, job, output_path, ok)
                      ELSE OleSave(rpt, output_path)
           IN /\ ok \/ (res.cause = "rejected")
              /\ native' = native \o res.native
              /\ calls' = Append(calls, Call("save", output_path, res.raised,
                                             res.cause))
    /\ UNCHANGED <<env, rpt, engine, job, ctl, scriptvars, probevars, colorvars,
                   filevars, pairvars, analyzervars>>

\* _FORMAT_DLLS and _DEST_DISK_DLL
ExportFormats == {"pdf", "xls", "xlsx", "rtf", "csv", "xml", "txt"}

FORMAT_DLLS(fmt) ==
    CASE fmt = "pdf" -> "u2fpdf.dll"
      [] fmt = "xls" -> "u2fxls.dll"
      [] fmt = "xlsx" -> "u2fxls.dll"
      [] fmt = "rtf" -> "u2frtf.dll"
      [] fmt = "csv" -> "u2fcsv.dll"
      [] fmt = "xml" -> "u2fxml.dll"
      [] fmt = "txt" -> "u2ftxt.dll"

DEST_DISK_DLL == "u2ddisk.dll"

\* CrystalReport.export(output_path, fmt): formatDLLName and
\* destinationDLLName of the options handed to PEExportTo
ExportCall ==
    /\ InSession
    /\ \E fmt \in ExportFormats : \E ok \in BOOLEAN :
           IF RequireSdkRaises(rpt)
           THEN /\ ok
                /\ calls' = Append(calls, Call("export", fmt,
                                               "SDKNotAvailableError", "no_sdk"))
                /\ native' = native
           ELSE /\ native' = Append(native, Native("PEExportTo",
                                        FORMAT_DLLS(fmt), DEST_DISK_DLL))
                /\ calls' = Append(calls,
                       IF ok THEN Call("export", fmt, "none", "none")
                       ELSE Call("export", fmt, "ExportError", "rejected"))
    /\ UNCHANGED <<env, rpt, engine, job, ctl, scriptvars, probevars, colorvars,
                   filevars, pairvars, analyzervars>>

\* a job closed on every close
JobClosesAlways(r, j) == TRUE

\* if self._job is not None: ... if not self._closed and self._handle >= 0
JobCloses(r, j) == r.job /\ ~j.closed

\* CrystalReport.close(): CrpeJob.close, CrpeEngine.close, OleParser.close
ReportClose(r, en, j, nat) ==
    LET job_call == JobCloses(r, j)
        nat1 == IF job_call
                THEN Append(nat, Native("PEClosePrintJob", j.path, "")) ELSE nat
        j1 == IF job_call THEN [j EXCEPT !.closed = TRUE] ELSE j
        engine_call == r.engine /\ en.dll /\ en.opened
        nat2 == IF engine_call
                THEN Append(nat1, Native("PECloseEngine", "", "")) ELSE nat1
        en1 == IF engine_call THEN [en EXCEPT !.opened = FALSE] ELSE en
        nat3 == IF r.ole
                THEN Append(nat2, Native("OleFileIO.close", r.path, "")) ELSE nat2
    IN [rpt |-> [r EXCEPT !.job = FALSE, !.engine = FALSE, !.ole = FALSE],
        engine |-> en1, job |-> j1, native |-> nat3]

\* rpt.close() called by the caller
CloseCall ==
    /\ InSession
    /\ LET res == ReportClose(rpt, engine, job, native)
       IN /\ rpt' = res.rpt
          /\ engine' = res.engine
          /\ job' = res.job
          /\ native' = res.native
    /\ calls' = Append(calls, Call("close", "", "none", "none"))
    /\ UNCHANGED <<env, ctl, scriptvars, probevars, colorvars,
                   filevars, pairvars, analyzervars>>

\* __exit__: the with block is left, normally or by an exception of the body
ExitWith ==
    /\ ctl = "body"
    /\ LET res == ReportClose(rpt, engine, job, native)
       IN /\ rpt' = res.rpt
          /\ engine' = res.engine
          /\ job' = res.job
          /\ native' = res.native
    /\ \E exc \in BOOLEAN : ctl' = "exited"
    /\ UNCHANGED <<env, calls, scriptvars, probevars, colorvars,
                   filevars, pairvars, analyzervars>>

NextSession ==
    \/ Construct
    \/ EngineCall
    \/ OleCall
    \/ SaveCall
    \/ ExportCall
    \/ CloseCall
    \/ ExitWith

InitSession ==
    /\ NoScript
    /\ NoProbe
    /\ NoColor
    /\ NoFiles
    /\ NoPair
    /\ NoAnalysis
    /\ env \in Builds
    /\ rpt = [path |-> "", ole |-> FALSE, engine |-> FALSE, job |-> FALSE]
    /\ engine = [dll |-> FALSE, opened |-> FALSE]
    /\ job = [path |-> "", closed |-> FALSE]
    /\ native = <<>>
    /\ calls = <<>>
    /\ ctl = "new"

SpecSession == InitSession /\ [][NextSession]_vars

----------------------------------------------------------------------------
(* rgb_to_colorref: (b << 16) | (g << 8) | r, in crpe_engine.py and, as a   *)
(* fallback, in the package's __init__.py                                   *)

RECURSIVE Pow2(_)
Pow2(n) == IF n = 0 THEN 1 ELSE 2 * Pow2(n - 1)

\* x << n
ShiftLeft(x, n) == x * Pow2(n)

\* a | b on non-negative integers
RECURSIVE BitOr(_, _)
BitOr(a, b) ==
    IF a = 0 THEN b
    ELSE IF b = 0 THEN a
    ELSE (IF a % 2 = 1 \/ b % 2 = 1 THEN 1 ELSE 0)
             + 2 * BitOr(a \div 2, b \div 2)

\* the channels the other way round: 0x00RRGGBB
bgr_to_colorref(r, g, b) == BitOr(BitOr(ShiftLeft(r, 16), ShiftLeft(g, 8)), b)

rgb_to_colorref(r, g, b) == BitOr(BitOr(ShiftLeft(b, 16), ShiftLeft(g, 8)), r)

fallback_rgb_to_colorref(r, g, b) ==
    BitOr(BitOr(ShiftLeft(b, 16), ShiftLeft(g, 8)), r)

\* Channel values: the ends of 0..255, the middle, and low bits
Channels == {0, 1, 2, 127, 128, 254, 255}

Convert ==
    /\ colorref = <<>>
    /\ colorref' = <<rgb_to_colorref(rgb[1], rgb[2], rgb[3]),
                     fallback_rgb_to_colorref(rgb[1], rgb[2], rgb[3])>>
    /\ UNCHANGED <<rgb, scriptvars, sessionvars, probevars, filevars, pairvars,
                   analyzervars>>

NextColor == Convert

InitColor ==
    /\ NoScript
    /\ NoSession
    /\ NoProbe
    /\ NoFiles
    /\ NoPair
    /\ NoAnalysis
    /\ rgb \in Channels \X Channels \X Channels
    /\ colorref = <<>>

SpecColor == InitColor /\ [][NextColor]_vars

----------------------------------------------------------------------------
(* CrpeJob.get_section_codes: the probe of PEGetSectionFormat over the      *)
(* areas and their sub-sections.  `layout` is the set of codes the engine   *)
(* answers the probe for.  An entry of `found` is the code appended to      *)
(* `codes`, kept with the loop indices that produced it.                    *)

SECTION_AREA_MULTIPLIER == 6000
SECTION_SUB_STEP == 50
LAST_AREA == 8
SUB_LIMIT == 100

\* a code with sub-sections 100 apart
WideSectionCode(a, sub) == a * SECTION_AREA_MULTIPLIER + sub * 100

\* base = area * _SECTION_AREA_MULTIPLIER; code = base + sub * _SECTION_SUB_STEP
SectionCode(a, sub) == a * SECTION_AREA_MULTIPLIER + sub * SECTION_SUB_STEP

\* The sub at which `for sub in range(100)` ends: the first failure past
\* sub 0 (elif sub > 0: break), or 100 when the range is exhausted
Broken(a, answers) ==
    CHOOSE s \in 1..SUB_LIMIT :
        /\ s = SUB_LIMIT \/ SectionCode(a, s) \notin answers
        /\ \A t \in 1..(s - 1) : SectionCode(a, t) \in answers

\* The sub loop of one area: every sub before the break is probed in order
\* and its code appended when the engine answers for it
SubLoop(a, answers, acc) ==
    acc \o SelectSeq([i \in 1..Broken(a, answers) |->
                         [code |-> SectionCode(a, i - 1),
                          area |-> a, sub |-> i - 1]],
                     LAMBDA r : r.code \in answers)

\* One round of `for area in range(1, 9)`
ProbeArea ==
    /\ area \in 1..LAST_AREA
    /\ found' = SubLoop(area, layout, found)
    /\ area' = area + 1
    /\ UNCHANGED <<layout, scriptvars, sessionvars, colorvars, filevars,
                   pairvars, analyzervars>>

NextProbe == ProbeArea

\* section_label: area = code // 6000, sub = (code - area * 6000) // 50
LabelArea(code) == code \div SECTION_AREA_MULTIPLIER

LabelSub(code) ==
    (code - LabelArea(code) * SECTION_AREA_MULTIPLIER) \div SECTION_SUB_STEP

\* The sub-sections an area may hold: none, the first, the first two, two
\* without the first, two with a gap, all hundred, the first and the last
SubPatterns == {{}, {0}, {0, 1}, {1, 2}, {0, 2}, 0..99, {0, 99}}

\* Two areas with a pattern each, every other area with the same answer
InitProbe ==
    /\ NoScript
    /\ NoSession
    /\ NoColor
    /\ NoFiles
    /\ NoPair
    /\ NoAnalysis
    /\ \E a1, a2 \in 1..LAST_AREA : \E p1, p2 \in SubPatterns :
       \E rest \in {{}, {0}} :
           layout = {a1 * 6000 + sub * 50 : sub \in p1}
                    \cup {a2 * 6000 + sub * 50 : sub \in p2}
                    \cup {a * 6000 + sub * 50 :
                              a \in (1..LAST_AREA) \ {a1, a2}, sub \in rest}
    /\ found = <<>>
    /\ area = 1

SpecProbe == InitProbe /\ [][NextProbe]_vars

----------------------------------------------------------------------------
(* CrystalReport.set_metadata over OleParser.set_metadata, in an open       *)
(* session on /work/in.rpt.  A file is <<>> when absent, else the one        *)
(* record of its metadata; "unset" is a keyword argument not supplied.       *)

SourcePath == Resolve("in.rpt")

MetaFields == {"title", "author"}

Kwargs == [title : {"unset", "T0", "T1"}, author : {"unset", "A1"}]

\* OleParser.set_metadata(path, **kwargs): output = Path(path); a copy of
\* the source when the two paths differ as written; kwargs is not used.
\* shutil.copy2 raises SameFileError when both name the same file.
OleSetMetadata(fs, self_path, path, kwargs) ==
    IF path # self_path
    THEN IF Resolve(path) = Resolve(self_path)
         THEN [files |-> fs, raised |-> "SameFileError"]
         ELSE [files |-> [fs EXCEPT ![Resolve(path)] = fs[Resolve(self_path)]],
               raised |-> "none"]
    ELSE [files |-> fs, raised |-> "none"]

\* CrystalReport.set_metadata(output_path, **kwargs):
\* dest = output_path or self._path
SetMetadata ==
    /\ Len(edits) < MaxCalls
    /\ \E output_path \in RawPaths \cup {"None"} : \E kwargs \in Kwargs :
           LET dest == IF output_path = "None" THEN SourcePath ELSE output_path
               res == OleSetMetadata(files, SourcePath, dest, kwargs)
           IN /\ files' = res.files
              /\ edits' = Append(edits,
                     [output_path |-> output_path, kwargs |-> kwargs,
                      raised |-> res.raised,
                      source_before |-> files[SourcePath],
                      source_after |-> res.files[SourcePath],
                      dest_after |-> res.files[Resolve(dest)]])
    /\ UNCHANGED <<scriptvars, sessionvars, probevars, colorvars, pairvars,
                   analyzervars>>

NextMeta == SetMetadata

\* The source with its own title; the destination absent or an older file
InitMeta ==
    /\ NoScript
    /\ NoSession
    /\ NoProbe
    /\ NoColor
    /\ NoPair
    /\ NoAnalysis
    /\ \E t \in {"T0", "T1"} :
       \E old \in {<<>>, <<[title |-> "T1", author |-> "A0"]>>} :
           files = [p \in {Resolve(q) : q \in RawPaths} |->
                       IF p = SourcePath
                       THEN <<[title |-> t, author |-> "A0"]>>
                       ELSE old]
    /\ edits = <<>>

SpecMeta == InitMeta /\ [][NextMeta]_vars

----------------------------------------------------------------------------
(* analyze_alignment.py, run on the report before the fixer.  `analysis`    *)
(* holds, once the script has run, the rows and the `misaligned` list of    *)
(* every section and the rows the summary lists as issues.                  *)

\* sorted(objects, key=lambda o: (o.top, o.left))
BeforeByTopLeft(a, b) == a.top < b.top \/ (a.top = b.top /\ a.left < b.left)

RECURSIVE InsertByTopLeft(_, _)
InsertByTopLeft(o, s) ==
    IF s = <<>> THEN <<o>>
    ELSE IF BeforeByTopLeft(o, Head(s)) THEN <<o>> \o s
         ELSE <<Head(s)>> \o InsertByTopLeft(o, Tail(s))

RECURSIVE SortedByTopLeft(_)
SortedByTopLeft(s) ==
    IF s = <<>> THEN <<>>
    ELSE InsertByTopLeft(s[Len(s)], SortedByTopLeft(SubSeq(s, 1, Len(s) - 1)))

\* for other in objects_sorted: ... if abs(other.top - obj.top) <= TOLERANCE
RECURSIVE AnalyzerInner(_, _, _, _)
AnalyzerInner(obj, rest, row, used) ==
    IF rest = <<>> THEN [row |-> row, used |-> used]
    ELSE LET other == Head(rest) IN
         IF other.handle \in used
         THEN AnalyzerInner(obj, Tail(rest), row, used)
         ELSE IF Abs(other.top - obj.top) <= TOLERANCE
              THEN AnalyzerInner(obj, Tail(rest), Append(row, other),
                                 used \cup {other.handle})
              ELSE AnalyzerInner(obj, Tail(rest), row, used)

\* for obj in objects_sorted: ... if len(row) > 1: rows.append(row)
RECURSIVE AnalyzerOuter(_, _, _, _)
AnalyzerOuter(todo, objects_sorted, rows, used) ==
    IF todo = <<>> THEN rows
    ELSE LET obj == Head(todo) IN
         IF obj.handle \in used
         THEN AnalyzerOuter(Tail(todo), objects_sorted, rows, used)
         ELSE LET r == AnalyzerInner(obj, objects_sorted, <<obj>>,
                                     used \cup {obj.handle})
              IN AnalyzerOuter(Tail(todo), objects_sorted,
                               IF Len(r.row) > 1 THEN Append(rows, r.row)
                               ELSE rows,
                               r.used)

\* The rows of one section: all its objects, whatever their class
AnalyzerRows(objects) ==
    LET objects_sorted == SortedByTopLeft(objects)
    IN AnalyzerOuter(objects_sorted, objects_sorted, <<>>, {})

Bottoms(row) == [i \in DOMAIN row |-> row[i].bottom]

\* sum(values) // len(values)
FloorMean(values) == SumSeq(values) \div Len(values)

Flag(obj, edge, value, expected) ==
    [handle |-> obj.handle, edge |-> edge, diff |-> value - expected,
     expected |-> expected]

\* The entries one row adds to `misaligned`: tops first, then bottoms
RowFlags(row) ==
    LET tops == Tops(row)
        bottoms == Bottoms(row)
        avg_top == FloorMean(tops)
        avg_bottom == FloorMean(bottoms)
        off_top == SelectSeq(row, LAMBDA o : o.top # avg_top)
        off_bottom == SelectSeq(row,
                          LAMBDA o : Abs(o.bottom - avg_bottom) > TOLERANCE)
    IN (IF Cardinality(Range(tops)) > 1
        THEN [i \in DOMAIN off_top |->
                 Flag(off_top[i], "top", off_top[i].top, avg_top)]
        ELSE <<>>)
       \o
       (IF Cardinality(Range(bottoms)) > 1
        THEN [i \in DOMAIN off_bottom |->
                 Flag(off_bottom[i], "bottom", off_bottom[i].bottom, avg_bottom)]
        ELSE <<>>)

RECURSIVE Misaligned(_)
Misaligned(rows) ==
    IF rows = <<>> THEN <<>>
    ELSE RowFlags(Head(rows)) \o Misaligned(Tail(rows))

\* The detail pass over sorted(sections.keys())
RECURSIVE AnalyzeSections(_, _)
AnalyzeSections(secs, codes) ==
    IF codes = <<>> THEN <<>>
    ELSE LET rows == AnalyzerRows(SectionObjects(secs, Head(codes)))
         IN <<[code |-> Head(codes), rows |-> rows,
               misaligned |-> Misaligned(rows)]>>
            \o AnalyzeSections(secs, Tail(codes))

\* The summary: the rows whose tops are not all equal, section by section
RECURSIVE SectionIssues(_, _)
SectionIssues(secs, codes) ==
    IF codes = <<>> THEN <<>>
    ELSE LET objects == SectionObjects(secs, Head(codes))
             rows == IF Len(objects) < 2 THEN <<>> ELSE AnalyzerRows(objects)
             uneven == SelectSeq(rows,
                           LAMBDA row : Cardinality(Range(Tops(row))) > 1)
         IN [i \in DOMAIN uneven |-> [code |-> Head(codes), row |-> uneven[i]]]
            \o SectionIssues(secs, Tail(codes))

\* The whole script; get_margins and get_section_height raise when the
\* engine rejects them, which ends the script with nothing reported
Analyze ==
    /\ pc = "open"
    /\ run = 1
    /\ analysis = <<>>
    /\ \E ok \in BOOLEAN :
           LET secs == GetAllObjects(eng)
               codes == SortedKeys(secs)
           IN analysis' =
                  IF ok
                  THEN <<[done |-> TRUE,
                          detail |-> AnalyzeSections(secs, codes),
                          issues |-> SectionIssues(secs, codes)]>>
                  ELSE <<[done |-> FALSE, detail |-> <<>>, issues |-> <<>>]>>
    /\ UNCHANGED <<scriptvars, sessionvars, probevars, colorvars, filevars,
                   pairvars>>

NextAnalyze ==
    \/ Analyze
    \/ Next

SpecAnalyze == Init /\ [][NextAnalyze]_vars

----------------------------------------------------------------------------
(* CrpeJob.move_object called directly, with any section_code.  The         *)
(* report holds two objects of section 18050: boxes and lines, in their     *)
(* section or cross-section, and a field.                                   *)

Placed(type, secfield) ==
    [object_type |-> type, section_code |-> 18050, left |-> 200, top |-> 110,
     right |-> 9000, bottom |-> 250, secfield |-> secfield]

MoveCatalog ==
    {Placed("Box", 18050 + CROSS_SECTION_BASE), Placed("Box", 0),
     Placed("Line", 18050 + CROSS_SECTION_BASE), Placed("Line", 0),
     Placed("Field", 18050 + CROSS_SECTION_BASE)}

\* job.move_object(handle, left, top, right, bottom, section_code)
MoveCall ==
    /\ pc = "call"
    /\ Len(requests) < MaxCalls
    /\ \E handle \in DOMAIN eng : \E span \in {<<100, 300>>, <<500, 900>>} :
       \E section_code \in {-1, 0, 18050} : \E outcome \in Outcomes :
           Commit(TryMove(PassState, run, "call", [handle |-> handle],
                          TARGET_LEFT, span[1], TARGET_RIGHT, span[2],
                          section_code, <<outcome>>),
                  "call")

NextMove == MoveCall

InitMove ==
    /\ eng \in {<<a, b>> : a, b \in MoveCatalog}
    /\ NoSession
    /\ NoProbe
    /\ NoColor
    /\ NoFiles
    /\ NoPair
    /\ NoAnalysis
    /\ height = [c \in Range(SECTION_CODES) |-> IF c = 18050 THEN 700 ELSE 1000]
    /\ fonts = [h \in DOMAIN eng |-> "none"]
    /\ sections = <<>>
    /\ pc = "call"
    /\ run = 1
    /\ failures = 0
    /\ requests = <<>>
    /\ rowlog = <<>>
    /\ fixes = <<>>
    /\ pairlog = <<>>
    /\ box_fixes = <<>>
    /\ font_fixes = <<>>
    /\ saves = <<>>
    /\ oplog = <<>>

SpecMove == InitMove /\ [][NextMove]_vars

----------------------------------------------------------------------------
(* Two CrystalReport sessions in one process.  Each has its own CrpeEngine  *)
(* (its own _opened flag) over the one cached DLL; PEOpenEngine and         *)
(* PECloseEngine act on the process's engine.                               *)

PairPath(s) == IF s = 1 THEN "in.rpt" ELSE "out.rpt"

\* CrystalReport(PairPath(s)) for session s
PairConstruct(s) ==
    /\ pair[s].ctl = "new"
    /\ \E use_sdk \in BOOLEAN :
           LET path == Resolve(PairPath(s))
               nat0 == Append(native, Native("OleFileIO", path, ""))
               r == IF use_sdk THEN EngineOpen(env, path, nat0)
                    ELSE [ok |-> FALSE, engine |-> pair[s].engine,
                          job |-> pair[s].job, native |-> nat0]
           IN /\ pair' = [pair EXCEPT ![s] =
                             [ctl |-> "body",
                              rpt |-> [path |-> path, ole |-> TRUE,
                                       engine |-> r.ok, job |-> r.ok],
                              engine |-> r.engine, job |-> r.job]]
              /\ native' = r.native
    /\ UNCHANGED <<env, rpt, engine, job, calls, ctl, scriptvars, probevars,
                   colorvars, filevars, analyzervars>>

\* close() of session s
PairClose(s) ==
    /\ pair[s].ctl = "body"
    /\ LET res == ReportClose(pair[s].rpt, pair[s].engine, pair[s].job, native)
       IN /\ pair' = [pair EXCEPT ![s] =
                         [ctl |-> "closed", rpt |-> res.rpt,
                          engine |-> res.engine, job |-> res.job]]
          /\ native' = res.native
    /\ UNCHANGED <<env, rpt, engine, job, calls, ctl, scriptvars, probevars,
                   colorvars, filevars, analyzervars>>

NextPair ==
    \/ \E s \in {1, 2} : PairConstruct(s)
    \/ \E s \in {1, 2} : PairClose(s)

InitPair ==
    /\ NoScript
    /\ NoProbe
    /\ NoColor
    /\ NoFiles
    /\ NoAnalysis
    /\ env \in Builds
    /\ rpt = [path |-> "", ole |-> FALSE, engine |-> FALSE, job |-> FALSE]
    /\ engine = [dll |-> FALSE, opened |-> FALSE]
    /\ job = [path |-> "", closed |-> FALSE]
    /\ native = <<>>
    /\ calls = <<>>
    /\ ctl = "none"
    /\ pair = [s \in {1, 2} |->
                  [ctl |-> "new",
                   rpt |-> [path |-> "", ole |-> FALSE, engine |-> FALSE,
                            job |-> FALSE],
                   engine |-> [dll |-> FALSE, opened |-> FALSE],
                   job |-> [path |-> "", closed |-> FALSE]]]

SpecPair == InitPair /\ [][NextPair]_vars

----------------------------------------------------------------------------
(* CrpeEngine and CrpeJob used directly, as in CrpeEngine's docstring:      *)
(* engine = CrpeEngine(); job = engine.open("in.rpt"); job.<op>(...);       *)
(* job.close(); engine.close().                                             *)

\* job = engine.open(path): an exception leaves the caller without a job
JobOpen ==
    /\ ctl = "new"
    /\ LET r == EngineOpen(env, "in.rpt", native)
       IN /\ engine' = r.engine
          /\ job' = r.job
          /\ native' = r.native
          /\ ctl' = IF r.ok THEN "body" ELSE "failed"
    /\ UNCHANGED <<env, rpt, calls, scriptvars, probevars, colorvars, filevars,
                   pairvars, analyzervars>>

\* job.<op>(...): no method of CrpeJob other than close looks at _closed
JobOp ==
    /\ ctl = "body"
    /\ Len(calls) < MaxCalls
    /\ \E op \in EngineOps : \E ok \in BOOLEAN :
           /\ ok \/ op \in CheckedOps
           /\ native' = Append(native, Native(NativeOf(op), job.path, ""))
           /\ calls' = Append(calls,
                  IF ok THEN Call(op, "", "none", "none")
                  ELSE Call(op, "", "CrystalReportsError", "rejected"))
    /\ UNCHANGED <<env, rpt, engine, job, ctl, scriptvars, probevars, colorvars,
                   filevars, pairvars, analyzervars>>

\* job.close(): if not self._closed and self._handle >= 0
JobClose ==
    /\ ctl = "body"
    /\ Len(calls) < MaxCalls
    /\ native' = IF ~job.closed
                 THEN Append(native, Native("PEClosePrintJob", job.path, ""))
                 ELSE native
    /\ job' = [job EXCEPT !.closed = TRUE]
    /\ calls' = Append(calls, Call("job.close", "", "none", "none"))
    /\ UNCHANGED <<env, rpt, engine, ctl, scriptvars, probevars, colorvars,
                   filevars, pairvars, analyzervars>>

\* engine.close(): if self._dll is not None and self._opened
EngineClose ==
    /\ ctl \in {"body", "failed"}
    /\ native' = IF engine.dll /\ engine.opened
                 THEN Append(native, Native("PECloseEngine", "", ""))
                 ELSE native
    /\ engine' = [engine EXCEPT !.opened = FALSE]
    /\ ctl' = "exited"
    /\ UNCHANGED <<env, rpt, job, calls, scriptvars, probevars, colorvars,
                   filevars, pairvars, analyzervars>>

NextJob ==
    \/ JobOpen
    \/ JobOp
    \/ JobClose
    \/ EngineClose

SpecJob == InitSession /\ [][NextJob]_vars

----------------------------------------------------------------------------
(* Properties *)

AfterPass1 == pc \notin {"open", "pass1"}

AfterPass1b == pc \notin {"open", "pass1", "pass1b"}

RowHandles(e) == {e.row[i].handle : i \in DOMAIN e.row}

SameGroup(a, b) ==
    /\ a.section_code = b.section_code
    /\ IsContainer(a) <=> IsContainer(b)

\* No other object of the object's section and class lies within TOLERANCE
Lone(o) ==
    \A k \in DOMAIN sections :
        (sections[k].handle # o.handle /\ SameGroup(sections[k], o))
            => Abs(sections[k].top - o.top) > TOLERANCE

RowRequests(r, code) ==
    {i \in DOMAIN requests : /\ requests[i].run = r
                             /\ requests[i].code = code
                             /\ requests[i].role = "row"}

ChainIn(secs) ==
    \E a, b, c \in DOMAIN secs :
        /\ SameGroup(secs[a], secs[b]) /\ SameGroup(secs[b], secs[c])
        /\ secs[a].top < secs[b].top /\ secs[b].top < secs[c].top
        /\ secs[b].top - secs[a].top <= TOLERANCE
        /\ secs[c].top - secs[b].top <= TOLERANCE
        /\ secs[c].top - secs[a].top > TOLERANCE

\* C2 as stated: on an input whose tops rise in steps of at most TOLERANCE
\* (100, 115, 130) some row holds two objects more than TOLERANCE apart.
C2_ChainedRowExists ==
    (AfterPass1 /\ ChainIn(sections)) =>
        \E i \in DOMAIN rowlog :
            \E a, b \in DOMAIN rowlog[i].row :
                Abs(rowlog[i].row[a].top - rowlog[i].row[b].top) > TOLERANCE

\* C2, amended: no row is chained; any two members of a row are within
\* TOLERANCE of each other, every member being within TOLERANCE above the
\* row's first member.
C2_NoChainedRow ==
    \A i \in DOMAIN rowlog :
        LET row == rowlog[i].row IN
        /\ \A a \in DOMAIN row : /\ row[a].top >= row[1].top
                                 /\ row[a].top - row[1].top <= TOLERANCE
        /\ \A a, b \in DOMAIN row : Abs(row[a].top - row[b].top) <= TOLERANCE

\* The chain 100, 115, 130 was grouped: 100 and 115 share a row, 130 is out
C2_Witness ==
    /\ AfterPass1
    /\ ChainIn(sections)
    /\ \E i \in DOMAIN rowlog :
           /\ Tops(rowlog[i].row) = <<100, 115>>
           /\ \E k \in DOMAIN sections :
                  /\ sections[k].top = 130
                  /\ SameGroup(sections[k], rowlog[i].row[1])
                  /\ \A j \in DOMAIN rowlog :
                         sections[k].handle \notin RowHandles(rowlog[j])

\* The values of tops that occur as often as any value does
Modes(tops) ==
    {tops[i] : i \in {k \in DOMAIN tops :
                         \A j \in DOMAIN tops :
                             Count(tops, tops[j]) <= Count(tops, tops[k])}}

AllDistinct(tops) == \A i \in DOMAIN tops : Count(tops, tops[i]) = 1

\* t is num / den rounded to the nearest integer, an exact half to even
NearestEven(t, num, den) ==
    /\ Abs(2 * num - 2 * t * den) <= den
    /\ Abs(2 * num - 2 * t * den) = den => t % 2 = 0

SingleTop(row) == \A a, b \in DOMAIN row : row[a].top = row[b].top

Aligned(e) == e.target # <<>>

\* C3: for every row with non-uniform tops the target is a most frequent
\* top of the row; if every top occurs once it is the mean of the tops
\* rounded to the nearest integer, an exact half to the even one.
C3_TargetIsModeOrMean ==
    \A i \in DOMAIN rowlog :
        LET tops == Tops(rowlog[i].row) IN
        ~SingleTop(rowlog[i].row) =>
            /\ Aligned(rowlog[i])
            /\ IF AllDistinct(tops)
               THEN NearestEven(rowlog[i].target[1], SumSeq(tops), Len(tops))
               ELSE rowlog[i].target[1] \in Modes(tops)

\* A row with every top distinct was aligned to its mean, an exact half
\* rounded to the even integer (100, 115 -> 107.5 -> 108)
C3_Witness ==
    \E i \in DOMAIN rowlog :
        /\ Tops(rowlog[i].row) = <<100, 115>>
        /\ rowlog[i].target = <<108>>

\* C4: when two or more tops of a row share the highest frequency (at
\* least 2), the target is the smallest of them, whatever the order in
\* which the engine lists the objects.
C4_TieTakesSmallest ==
    \A i \in DOMAIN rowlog :
        LET tops == Tops(rowlog[i].row)
            modes == Modes(tops)
        IN (Cardinality(modes) >= 2 /\ ~AllDistinct(tops)) =>
               /\ Aligned(rowlog[i])
               /\ \A m \in modes : rowlog[i].target[1] <= m
               /\ rowlog[i].target[1] \in modes

\* A tie of two tops, each twice, listed by the engine with the larger first
C4_Witness ==
    \E i \in DOMAIN rowlog :
        /\ Cardinality(Modes(Tops(rowlog[i].row))) = 2
        /\ ~AllDistinct(Tops(rowlog[i].row))
        /\ \E a, b \in DOMAIN sections :
               /\ a < b
               /\ sections[a].top > sections[b].top
               /\ {sections[a].handle, sections[b].handle}
                      \subseteq RowHandles(rowlog[i])
               /\ sections[b].top = rowlog[i].target[1]

\* C5: in a non-uniform row exactly the members whose top differs from the
\* target get one move_object request each, with top = target, bottom =
\* old bottom + (target - old top), left and right as they were; the other
\* members get none, and no other Pass 1 request is made.
C5_RowDeltas ==
    /\ \A i \in DOMAIN rowlog :
           LET e == rowlog[i] IN
           Aligned(e) =>
               \A a \in DOMAIN e.row :
                   LET o == e.row[a]
                       mine == {k \in RowRequests(e.run, e.code) :
                                   requests[k].handle = o.handle}
                   IN IF o.top # e.target[1]
                      THEN /\ Cardinality(mine) = 1
                           /\ \A k \in mine :
                                  /\ requests[k].top = e.target[1]
                                  /\ requests[k].bottom
                                         = o.bottom + (e.target[1] - o.top)
                                  /\ requests[k].bottom - requests[k].top
                                         = o.bottom - o.top
                                  /\ requests[k].left = o.left
                                  /\ requests[k].right = o.right
                      ELSE mine = {}
    /\ \A k \in DOMAIN requests :
           requests[k].role = "row" =>
               \E i \in DOMAIN rowlog :
                   /\ Aligned(rowlog[i])
                   /\ rowlog[i].run = requests[k].run
                   /\ rowlog[i].code = requests[k].code
                   /\ requests[k].handle \in RowHandles(rowlog[i])

\* A row with tops 100, 100, 105: one request, 105 -> 100, bottom by -5
C5_Witness ==
    \E i \in DOMAIN rowlog :
        /\ Tops(rowlog[i].row) = <<100, 100, 105>>
        /\ rowlog[i].target = <<100>>
        /\ Cardinality(RowRequests(rowlog[i].run, rowlog[i].code)) = 1
        /\ \E k \in RowRequests(rowlog[i].run, rowlog[i].code) :
               /\ requests[k].handle = rowlog[i].row[3].handle
               /\ requests[k].top = 100
               /\ requests[k].bottom = rowlog[i].row[3].bottom - 5

\* C6: in a section where every row found has a single top value, Pass 1
\* chooses no target, issues no move_object request and records no fix.
C6_AlignedIsNoOp ==
    \A r \in 1..run : \A c \in Range(SECTION_CODES) :
        (\A i \in DOMAIN rowlog :
            (rowlog[i].run = r /\ rowlog[i].code = c)
                => SingleTop(rowlog[i].row))
        => /\ RowRequests(r, c) = {}
           /\ \A k \in DOMAIN fixes : ~(fixes[k].run = r /\ fixes[k].code = c)
           /\ \A i \in DOMAIN rowlog :
                  (rowlog[i].run = r /\ rowlog[i].code = c) => ~Aligned(rowlog[i])

\* A section whose rows are uniform went through Pass 1 next to a section
\* that needed a move
C6_Witness ==
    /\ AfterPass1
    /\ \E i \in DOMAIN rowlog :
           /\ SingleTop(rowlog[i].row)
           /\ RowRequests(rowlog[i].run, rowlog[i].code) = {}
    /\ requests # <<>>

\* C7 as stated: when Pass 1 has run once with every move succeeding and
\* nothing else has moved an object, Pass 1 run again on the moved
\* coordinates issues no move request.
C7_SecondRunNoMoves ==
    (/\ run = 2
     /\ AfterPass1
     /\ failures = 0
     /\ \A k \in DOMAIN requests : requests[k].run = 1 => requests[k].role = "row")
        => \A k \in DOMAIN requests : requests[k].run = 2 => requests[k].role # "row"

PairRequests(r, code, role) ==
    {k \in DOMAIN requests : /\ requests[k].run = r
                             /\ requests[k].code = code
                             /\ requests[k].role = role}

\* The boxes of a section, in the order the engine lists them
ListedBoxes(code) == SelectSeq(SectionObjects(sections, code), IsBox)

\* C8 as stated: in a section with exactly 2 boxes, the header listed first
\* and the content box second, where the content box's top is less than
\* the header's, Pass 1b requests no move for either box and appends
\* exactly one 'SKIP layered boxes' record.
C8_LayeredSkipped ==
    AfterPass1b =>
        \A c \in Range(SECTION_CODES) :
            LET boxes == ListedBoxes(c) IN
            (Len(boxes) = 2 /\ boxes[2].top < boxes[1].top) =>
                /\ \A k \in DOMAIN requests :
                       (requests[k].run = run /\ requests[k].code = c)
                           => requests[k].role = "row"
                /\ Cardinality({k \in DOMAIN box_fixes :
                                   /\ box_fixes[k].run = run
                                   /\ box_fixes[k].code = c
                                   /\ box_fixes[k].what = "layered"}) = 1

\* C9: for every recognised pair, when content.top # header.bottom or the
\* content box is off an anchor, exactly one move is requested for the
\* content box: left 129, top header.bottom, right 10170, bottom
\* header.bottom + (content.bottom - content.top); otherwise none is.
C9_GapClosed ==
    \A i \in DOMAIN pairlog :
        LET e == pairlog[i]
            mine == PairRequests(e.run, e.code, "content")
        IN IF \/ e.content.top # e.kopje.bottom
              \/ e.content.left # 129
              \/ e.content.right # 10170
           THEN /\ Cardinality(mine) = 1
                /\ \A k \in mine :
                       /\ requests[k].handle = e.content.handle
                       /\ requests[k].left = 129
                       /\ requests[k].top = e.kopje.bottom
                       /\ requests[k].right = 10170
                       /\ requests[k].bottom
                              = e.kopje.bottom + (e.content.bottom - e.content.top)
                       /\ requests[k].bottom - requests[k].top
                              = e.content.bottom - e.content.top
           ELSE mine = {}

\* header.bottom = 300 and content.top = 310: the content box is asked to
\* top 300 and its bottom moves by -10; and a pair with gap 0 on both
\* anchors, for which nothing is asked
C9_Witness ==
    /\ \E i \in DOMAIN pairlog :
           /\ pairlog[i].kopje.bottom = 300
           /\ pairlog[i].content.top = 310
           /\ \E k \in PairRequests(pairlog[i].run, pairlog[i].code, "content") :
                  /\ requests[k].top = 300
                  /\ requests[k].bottom = pairlog[i].content.bottom - 10
                  /\ eng[pairlog[i].content.handle].top = 300

\* C10 as stated: in a section with exactly 3 boxes the header and the
\* inner box are the two boxes with the smallest top, two distinct
\* objects, the header being the one of greater height abs(bottom - top),
\* and the third box is the content.
C10_ThreeBoxRoles ==
    \A i \in DOMAIN pairlog :
        LET e == pairlog[i] IN
        e.inner # <<>> =>
            /\ e.kopje.handle # e.inner[1].handle
            /\ e.content.handle \notin {e.kopje.handle, e.inner[1].handle}
            /\ e.content.top >= e.kopje.top
            /\ e.content.top >= e.inner[1].top
            /\ Abs(e.kopje.bottom - e.kopje.top)
                   >= Abs(e.inner[1].bottom - e.inner[1].top)

\* The requests Pass 1b made for the header box and the inner box of a pair
EdgeRequests(e) ==
    PairRequests(e.run, e.code, "kopje") \cup PairRequests(e.run, e.code, "inner")

\* C11 as stated: whenever Pass 1b requests a move of the header box or of
\* the inner box, the requested right edge is the right edge the engine
\* holds for the content box of the pair, on every path, also when the
\* content move raised an error.  (Nothing moves the content box between
\* that request and the end of the pass.)
C11_EffectiveRight ==
    pc = "pass2" =>
        \A i \in DOMAIN pairlog :
            pairlog[i].run = run =>
                \A k \in EdgeRequests(pairlog[i]) :
                    requests[k].right = eng[pairlog[i].content.handle].right

\* The SKIP lines written so far: one per except branch taken
Skips(log) == Cardinality({k \in DOMAIN log : log[k].skip})

SkipLines ==
    Skips(fixes) + Skips(font_fixes)
        + Skips(SelectSeq(box_fixes, LAMBDA b : b.what # "layered"))

FailedSaves == Cardinality({k \in DOMAIN saves : ~saves[k].ok})

FontRecords(pass, code) ==
    {k \in DOMAIN font_fixes : /\ font_fixes[k].run = run
                               /\ font_fixes[k].pass = pass
                               /\ font_fixes[k].code = code}

HasType(code, type) ==
    \E k \in DOMAIN sections :
        sections[k].section_code = code /\ sections[k].object_type = type

\* Every object, section and pass was attempted, whatever failed before it
AllAttempted ==
    /\ AfterPass1 =>
           \A i \in DOMAIN rowlog :
               (rowlog[i].run = run /\ Aligned(rowlog[i])) =>
                   \A a \in DOMAIN rowlog[i].row :
                       rowlog[i].row[a].top # rowlog[i].target[1] =>
                           /\ \E k \in DOMAIN fixes :
                                  /\ fixes[k].run = run
                                  /\ fixes[k].handle = rowlog[i].row[a].handle
                           /\ \E k \in RowRequests(run, rowlog[i].code) :
                                  requests[k].handle = rowlog[i].row[a].handle
    /\ AfterPass1b =>
           \A c \in Range(SECTION_CODES) :
               Len(ListedBoxes(c)) \in {2, 3} =>
                   \E i \in DOMAIN pairlog :
                       /\ pairlog[i].run = run /\ pairlog[i].code = c
                       /\ pairlog[i].kopje.left # TARGET_LEFT =>
                              PairRequests(run, c, "kopje") # {}
    /\ pc \in {"pass3", "pass4", "save", "close", "done"} =>
           \A c \in Range(SECTION_CODES) :
               Cardinality(FontRecords("2", c))
                   = (IF HasType(c, "Text") THEN 1 ELSE 0)
    /\ pc \in {"pass4", "save", "close", "done"} =>
           \A c \in Range(SECTION_CODES) :
               Cardinality(FontRecords("3", c))
                   = (IF HasType(c, "Field") THEN 1 ELSE 0)
    /\ pc \in {"save", "close", "done"} =>
           \A k \in DOMAIN sections :
               (sections[k].section_code = PF_CODE
                    /\ sections[k].object_type = "Field") =>
                   Cardinality({j \in FontRecords("4", PF_CODE) :
                                   font_fixes[j].handle = sections[k].handle}) = 1

\* The position of the script is past the save call
PastSave == pc \in {"close", "done"}

SaveCalls == {k \in DOMAIN saves : saves[k].run = run}

\* C12: for every pattern of engine failures in move_object,
\* set_section_font and set_field_font each failing call is caught and
\* recorded as exactly one SKIP line, every later object, section and pass
\* is still attempted, and the run reaches the save step: it never leaves
\* the passes without the one save call having been made.
C12_FailureIsolation ==
    /\ SkipLines = failures - FailedSaves
    /\ AllAttempted
    /\ PastSave <=> Cardinality(SaveCalls) = 1
    /\ ~PastSave => FailedSaves = 0

\* Two engine calls failed, one in Pass 1 with a later object of the same
\* pass moved after it, and the run stands at the save step
C12_Witness ==
    /\ pc = "close"
    /\ saves[Len(saves)].ok
    /\ failures = 2
    /\ \E j, k \in DOMAIN fixes : j < k /\ fixes[j].skip /\ ~fixes[k].skip
    /\ Skips(font_fixes) = 1

\* The move_object calls made on a Box or Line that is not cross-section,
\* with section_code > 0, whose record the engine let the adapter read
GrowRequests == {k \in DOMAIN requests : requests[k].seen.ensured}

\* C13 as stated: move_object on a Box or Line that is not cross-section,
\* with section_code > 0, raises the section's height exactly when the
\* requested bottom exceeds the current height, then to the requested
\* bottom plus 20; otherwise the height is left unchanged.
C13_AutoGrow ==
    \A k \in GrowRequests :
        LET q == requests[k] IN
        IF q.bottom > q.seen.height_before
        THEN q.seen.height_after = q.bottom + 20
        ELSE q.seen.height_after = q.seen.height_before

\* The paths that name the file the session was opened from, however
\* they are written
NamesSource(p) == p \in {"in.rpt", "sub/../in.rpt", "/work/in.rpt"}

LastCall(log) == log[Len(log)]

\* A save call made in this step on an engine-backed session, with None or
\* with a path that names the open source file
SaveOverSourceStep ==
    /\ Len(calls') = Len(calls) + 1
    /\ has_sdk(rpt)
    /\ LastCall(calls').op = "save"
    /\ LastCall(calls').arg = "None" \/ NamesSource(LastCall(calls').arg)

\* C14: on an engine-backed session, save with output_path None or with a
\* path that resolves to the path the job was opened from raises an error,
\* makes no native call (PESavePrintJob is never called on that path), and
\* leaves the session open and unchanged.
C14_SaveNotOverSource ==
    [][SaveOverSourceStep =>
          /\ LastCall(calls').raised = "CrystalReportsError"
          /\ native' = native
          /\ \A i \in DOMAIN native' :
                 native'[i].fn = "PESavePrintJob" => ~NamesSource(native'[i].arg)
          /\ UNCHANGED <<rpt, engine, job>>
          /\ has_sdk(rpt')]_vars

\* An engine-backed session refused a save over its source written as
\* another path, after a save to a new file had gone to the engine
C14_Witness ==
    /\ has_sdk(rpt)
    /\ Len(calls) = 2
    /\ calls[1].op = "save" /\ calls[1].raised = "none"
    /\ calls[2] = Call("save", "sub/../in.rpt", "CrystalReportsError", "overwrite")
    /\ Cardinality({i \in DOMAIN native : native[i].fn = "PESavePrintJob"}) = 1

\* What made a call fail: the entry point is absent in the build, the
\* engine rejected the call, the save would overwrite the open source file
ErrorKinds == {"absent", "rejected", "overwrite"}

\* C15 as stated: the error raised for an entry point absent in the build,
\* the error raised when the engine rejects a call and the error raised for
\* saving over the open source file are of three different types.
C15_DistinctErrorKinds ==
    \A i, j \in DOMAIN calls :
        (/\ calls[i].cause \in ErrorKinds
         /\ calls[j].cause \in ErrorKinds
         /\ calls[i].cause # calls[j].cause)
            => calls[i].raised # calls[j].raised

\* The release calls among the native calls, in the order they were made
ReleaseFns == {"PEClosePrintJob", "PECloseEngine", "OleFileIO.close"}

Releases == SelectSeq(native, LAMBDA n : n.fn \in ReleaseFns)

\* The session holds a print job, an engine and the OLE file
Backed == \E i \in DOMAIN native : native[i].fn = "PESetDialogParentWindowHandle"

\* No native call follows the first release
NothingAfterRelease ==
    \A i, k \in DOMAIN native :
        (native[i].fn \in ReleaseFns /\ i < k) => native[k].fn \in ReleaseFns

\* C16: leaving the with block of an engine-backed session, normally or
\* through an exception of the body, closes the print job, then the
\* engine, then the OLE file, each exactly once; afterwards has_sdk is
\* False and a further close() makes no native call, so PEClosePrintJob is
\* called at most once per job.
C16_ScopedRelease ==
    /\ (ctl = "exited" /\ Backed) =>
           /\ [i \in DOMAIN Releases |-> Releases[i].fn]
                  = <<"PEClosePrintJob", "PECloseEngine", "OleFileIO.close">>
           /\ ~has_sdk(rpt)
           /\ job.closed /\ ~engine.opened /\ ~rpt.ole
    /\ (ctl = "exited" /\ ~Backed) =>
           [i \in DOMAIN Releases |-> Releases[i].fn] = <<"OleFileIO.close">>
    /\ Cardinality({i \in DOMAIN native : native[i].fn = "PEClosePrintJob"}) <= 1
    /\ NothingAfterRelease

\* An engine-backed session whose body raised, left its with block, and was
\* closed once more afterwards
C16_Witness ==
    /\ ctl = "exited"
    /\ Backed
    /\ Len(calls) = 2
    /\ calls[1].cause = "rejected"
    /\ calls[2].op = "close"

\* The native calls a session without a job may have made: those of its
\* construction, of the OLE layer and of its release
OleOnlyFns ==
    {"OleFileIO", "PEOpenEngine", "PEOpenPrintJob", "OleFileIO.close",
     "shutil.copy2"}

NotClosedYet == ctl = "body" /\ \A i \in DOMAIN calls : calls[i].op # "close"

\* C17: when use_sdk is False, the DLL cannot be loaded or the engine fails
\* to open the job, the CrystalReport is constructed with has_sdk False;
\* every engine-layer accessor and mutator then raises
\* SDKNotAvailableError without calling the engine, while metadata,
\* streams, embedded_images and subreports stay usable.
C17_EngineUnavailable ==
    (ctl # "new" /\ ~Backed) =>
        /\ ~has_sdk(rpt)
        /\ ctl = "body" /\ NotClosedYet => rpt.ole
        /\ \A i \in DOMAIN calls :
               calls[i].op \in EngineOps \cup {"export"} =>
                   calls[i].raised = "SDKNotAvailableError"
        /\ \A i \in DOMAIN native : native[i].fn \in OleOnlyFns
        /\ NotClosedYet =>
               \A i \in DOMAIN calls :
                   calls[i].op \in OleOps => calls[i].raised = "none"

\* The engine did not open the job: move_object was refused and metadata
\* was read
C17_Witness ==
    /\ env.engine_ok /\ ~env.job_ok
    /\ ctl = "body"
    /\ \E i \in DOMAIN native : native[i].fn = "PEOpenPrintJob"
    /\ calls = <<Call("move_object", "", "SDKNotAvailableError", "no_sdk"),
                 Call("metadata", "", "none", "none")>>

\* C18: for r, g, b in 0..255 rgb_to_colorref gives r + 256*g + 65536*b, a
\* value in 0..0xFFFFFF from which the three channels are recovered (so no
\* two inputs share a result), and the fallback definition of the package
\* gives the same value as the engine module's.
C18_ColorRef ==
    colorref # <<>> =>
        LET c == colorref[1] IN
        /\ c = rgb[1] + 256 * rgb[2] + 65536 * rgb[3]
        /\ c \in 0..16777215
        /\ c % 256 = rgb[1]
        /\ (c \div 256) % 256 = rgb[2]
        /\ c \div 65536 = rgb[3]
        /\ \A other \in Channels \X Channels \X Channels :
               rgb_to_colorref(other[1], other[2], other[3]) = c => other = rgb
        /\ colorref[2] = c

\* rgb_to_colorref(255, 0, 0) = 0x0000FF, from both definitions
C18_Witness ==
    /\ rgb = <<255, 0, 0>>
    /\ colorref = <<255, 255>>

\* The export calls that reached the engine, and the PEExportTo calls made
Exported == SelectSeq(calls, LAMBDA c : c.op = "export" /\ c.cause # "no_sdk")

ExportTo == SelectSeq(native, LAMBDA n : n.fn = "PEExportTo")

\* C19 as stated: each of the seven export formats is handed to the engine
\* as a pair (format filter, disk-destination filter), and two different
\* formats never get the same pair.
C19_ExportPairsDistinct ==
    /\ Len(Exported) = Len(ExportTo)
    /\ \A i, j \in DOMAIN Exported :
           (j \in DOMAIN ExportTo /\ Exported[i].arg # Exported[j].arg) =>
               <<ExportTo[i].arg, ExportTo[i].dest>>
                   # <<ExportTo[j].arg, ExportTo[j].dest>>

\* C20: whatever the engine answers to the probe, every code returned by
\* get_section_codes is a positive multiple of 50 of the form
\* area*6000 + sub*50 with sub in 0..99, the list is strictly increasing,
\* and decoding as section_label does (area = code div 6000,
\* sub = (code - area*6000) div 50) gives back the area and sub that
\* produced the code.
C20_SectionCodes ==
    /\ \A i \in DOMAIN found :
           LET c == found[i].code IN
           /\ c > 0
           /\ c % 50 = 0
           /\ \E a \in 1..8 : \E sub \in 0..99 : c = a * 6000 + sub * 50
           /\ c \div 6000 = found[i].area
           /\ (c - (c \div 6000) * 6000) \div 50 = found[i].sub
           /\ LabelArea(c) = found[i].area
           /\ LabelSub(c) = found[i].sub
           /\ c \in layout
    /\ \A i \in 1..(Len(found) - 1) : found[i].code < found[i + 1].code

\* The probe is over: one area gave all hundred sub-sections up to sub 99,
\* another gave sub-sections 1 and 2 without sub 0
C20_Witness ==
    /\ area = LAST_AREA + 1
    /\ \E i \in DOMAIN found : found[i].sub = 99 /\ found[i].code % 6000 = 4950
    /\ \E i \in DOMAIN found :
           /\ found[i].sub = 1
           /\ \A j \in DOMAIN found :
                  found[j].area = found[i].area => found[j].sub # 0
    /\ Len(found) > 100

ReadOps == {"objects", "get_info", "get_objects_in_section"}

WriteOps == {"set_info", "set_section_font", "set_field_font"}

\* The operations of run r, in order
RunOps(r) == SelectSeq(oplog, LAMBDA e : e.run = r)

Positions(ops, names) == {i \in DOMAIN ops : ops[i].op \in names}

\* One open, at most one save and one close; the save after every write,
\* the close after the save and last; a closed run has saved
OneSessionOneSave(ops) ==
    /\ ops # <<>> => ops[1].op = "open"
    /\ Cardinality(Positions(ops, {"open"})) <= 1
    /\ Cardinality(Positions(ops, {"save"})) <= 1
    /\ Cardinality(Positions(ops, {"close"})) <= 1
    /\ \A i \in Positions(ops, {"save"}) :
           \A j \in Positions(ops, ReadOps \cup WriteOps) : j < i
    /\ \A i \in Positions(ops, {"close"}) :
           /\ i = Len(ops)
           /\ i > 1 /\ ops[i - 1].op = "save"

\* C21 as stated: in a run of the fixer one session is opened, every engine
\* read (object listing, object info) happens before the first engine
\* write, and exactly one save is issued, after the last write and before
\* the session is closed.
C21_ReadsBeforeWrites ==
    \A r \in 1..MaxRuns :
        LET ops == RunOps(r) IN
        /\ OneSessionOneSave(ops)
        /\ \A i \in Positions(ops, ReadOps) :
               \A j \in Positions(ops, WriteOps) : i < j

\* C21, amended: in a run of the fixer one session is opened and the
\* object listing is read before the first write; the reads made after a
\* write are the record read that opens each move_object and the re-read
\* of the content box in Pass 1b, each before the save; exactly one save
\* is issued, after the last read and write, and the close follows it.
C21_BatchOrder ==
    \A r \in 1..MaxRuns :
        LET ops == RunOps(r) IN
        /\ OneSessionOneSave(ops)
        /\ Len(ops) >= 2 => ops[2].op = "objects"
        /\ Cardinality(Positions(ops, {"objects"})) <= 1
        /\ \A j \in Positions(ops, WriteOps) : j > 2
        /\ \A j \in Positions(ops, {"set_info"}) : ops[j - 1].op = "get_info"
        /\ \A i \in Positions(ops, {"get_objects_in_section"}) :
               ops[i - 1].op = "set_info"

\* A closed run in which the content box was read again after its move,
\* the header was moved after that, a font was set and the save was made
C21_Witness ==
    /\ pc = "done"
    /\ LET ops == RunOps(1) IN
       \E i, j, k \in DOMAIN ops :
           /\ i < j /\ j < k
           /\ ops[i].op = "get_objects_in_section"
           /\ ops[j].op = "set_info"
           /\ ops[k].op \in {"set_section_font", "set_field_font"}
           /\ ops[Len(ops) - 1].op = "save"

\* C22: after set_metadata(output_path=dest, ...) with dest different from
\* the source, the file at dest exists, reading its metadata returns the
\* supplied value for every supplied field, and the source file is
\* unchanged.
C22_SetMetadata ==
    \A i \in DOMAIN edits :
        LET e == edits[i] IN
        (e.output_path # "None" /\ Resolve(e.output_path) # SourcePath) =>
            /\ e.dest_after # <<>>
            /\ \A f \in MetaFields :
                   e.kwargs[f] # "unset" => e.dest_after[1][f] = e.kwargs[f]
            /\ e.source_after = e.source_before

Analysed == analysis # <<>> /\ analysis[1].done

Handles(row) == {row[i].handle : i \in DOMAIN row}

\* The rows the analyzer lists as issues, and the rows Pass 1 aligned
ReportedRows ==
    {<<analysis[1].issues[i].code, Handles(analysis[1].issues[i].row)>> :
         i \in DOMAIN analysis[1].issues}

AlignedRows ==
    {<<rowlog[i].code, Handles(rowlog[i].row)>> :
         i \in {k \in DOMAIN rowlog : rowlog[k].run = 1 /\ Aligned(rowlog[k])}}

\* C23: on the same report, the set of rows (as sets of objects) that
\* analyze_alignment reports on equals the set of rows that Pass 1 of
\* fix_alignment aligns, for every section.
C23_SameGrouping ==
    (Analysed /\ AfterPass1 /\ run = 1) => ReportedRows = AlignedRows

\* ref is the mean of values rounded to the nearest integer (an exact half
\* either way)
IsNearestMean(ref, values) ==
    Abs(2 * SumSeq(values) - 2 * ref * Len(values)) <= Len(values)

BottomFlags(d, row) ==
    {i \in DOMAIN d.misaligned : /\ d.misaligned[i].edge = "bottom"
                                 /\ d.misaligned[i].handle \in Handles(row)}

\* C24: for every row of the analyzer whose bottoms are not all equal, the
\* reference value is the mean of the row's bottoms rounded to the nearest
\* integer and exactly the members whose bottom differs from it by more
\* than TOLERANCE are flagged; the check moves no object.
C24_BottomDiagnostic ==
    Analysed =>
        /\ \A s \in DOMAIN analysis[1].detail :
               LET d == analysis[1].detail[s] IN
               \A k \in DOMAIN d.rows :
                   LET row == d.rows[k]
                       bottoms == Bottoms(row)
                   IN Cardinality(Range(bottoms)) > 1 =>
                          \E ref \in {FloorMean(bottoms), FloorMean(bottoms) + 1} :
                              /\ IsNearestMean(ref, bottoms)
                              /\ \A i \in BottomFlags(d, row) :
                                     d.misaligned[i].expected = ref
                              /\ {d.misaligned[i].handle : i \in BottomFlags(d, row)}
                                     = {row[a].handle : a \in
                                           {b \in DOMAIN row :
                                               Abs(row[b].bottom - ref) > TOLERANCE}}
        /\ pc = "open" => requests = <<>>

\* One direct call of move_object: q is the call, o the object before it
\* and o2 the object after it
MoveStep ==
    requests' # requests =>
        LET q == requests'[Len(requests')]
            o == eng[q.handle]
            o2 == eng'[q.handle]
            done == failures' = failures
            own == o.object_type \in {"Box", "Line"}
            cross == /\ own
                     /\ q.code > 0
                     /\ o.secfield # q.code + 65536
            whole == [o EXCEPT !.left = q.left, !.top = q.top,
                               !.right = q.right, !.bottom = q.bottom]
        IN /\ \A h \in DOMAIN eng : h # q.handle => eng'[h] = eng[h]
           /\ ~done => o2 = o
           /\ (done /\ ~own) => o2 = whole
           /\ (done /\ own /\ ~cross) => o2 = whole
           /\ (done /\ cross) =>
                  /\ o2.left = q.left /\ o2.top = q.top
                  /\ o2.right = o.right /\ o2.bottom = o.bottom
           /\ (cross \/ ~own \/ q.code <= 0) => height' = height
           /\ q.seen.ensured => (own /\ ~cross /\ q.code > 0)

\* C25: move_object writes the box record for a Box, the line record for a
\* Line and the generic record for every other type; for a Box or Line
\* detected as cross-section (section_code > 0 and the record's section
\* field differs from section_code + 65536) only left and top are written,
\* the extents keep their values and the section height is not touched;
\* with section_code <= 0 nothing is treated as cross-section and no
\* section height changes.
C25_MoveDispatch == [][MoveStep]_vars

\* A cross-section Line was moved: left and top taken, right and bottom
\* kept; and a Box was moved with section_code 0, written whole
C25_Witness ==
    /\ \E k \in DOMAIN requests :
           LET q == requests[k] IN
           /\ q.code > 0
           /\ eng[q.handle].object_type = "Line"
           /\ eng[q.handle].secfield = 0
           /\ eng[q.handle].top = q.top
           /\ eng[q.handle].bottom # q.bottom
    /\ \E k \in DOMAIN requests :
           LET q == requests[k] IN
           /\ q.code <= 0
           /\ eng[q.handle].object_type = "Box"
           /\ eng[q.handle].secfield = 0
           /\ eng[q.handle].bottom = q.bottom

\* The rows of the request's run and section that hold its object
RowsOf(q) ==
    {i \in DOMAIN rowlog : /\ rowlog[i].run = q.run
                           /\ rowlog[i].code = q.code
                           /\ q.handle \in RowHandles(rowlog[i])}

\* The top the object had in the snapshot the row was formed from
TopIn(row, handle) ==
    row[CHOOSE a \in DOMAIN row : row[a].handle = handle].top

\* C26: every move requested by Pass 1 has a target top between the
\* smallest and the largest top of its row and changes the object's top by
\* at most TOLERANCE; each object receives at most one Pass 1 move per run.
C26_BoundedCorrection ==
    /\ \A k \in DOMAIN requests :
           LET q == requests[k] IN
           q.role = "row" =>
               /\ Cardinality(RowsOf(q)) = 1
               /\ \A i \in RowsOf(q) :
                      LET row == rowlog[i].row IN
                      /\ \E a \in DOMAIN row : row[a].top <= q.top
                      /\ \E a \in DOMAIN row : row[a].top >= q.top
                      /\ Abs(q.top - TopIn(row, q.handle)) <= TOLERANCE
                      /\ q.top # TopIn(row, q.handle)
    /\ \A k, m \in DOMAIN requests :
           (/\ k # m
            /\ requests[k].role = "row" /\ requests[m].role = "row"
            /\ requests[k].run = requests[m].run)
               => requests[k].handle # requests[m].handle

\* A row of three aligned to its smallest top: one member moved by 15,
\* another by 5
C26_Witness ==
    \E k, m \in DOMAIN requests :
        /\ requests[k].role = "row" /\ requests[m].role = "row"
        /\ requests[k].code = requests[m].code
        /\ \E i \in RowsOf(requests[k]) :
               /\ i \in RowsOf(requests[m])
               /\ TopIn(rowlog[i].row, requests[k].handle) - requests[k].top = 15
               /\ TopIn(rowlog[i].row, requests[m].handle) - requests[m].top = 5
               /\ \A a \in DOMAIN rowlog[i].row :
                      rowlog[i].row[a].top >= requests[k].top

\* Pass 1b moved the box as the content box of a pair, to the bottom the
\* pair's header has in the engine
MovedAsContent(handle) ==
    \E k \in DOMAIN requests : \E i \in DOMAIN pairlog :
        /\ requests[k].role = "content"
        /\ requests[k].run = run
        /\ requests[k].handle = handle
        /\ pairlog[i].run = run
        /\ pairlog[i].content.handle = handle
        /\ requests[k].top = eng[pairlog[i].kopje.handle].bottom

\* C27: in a run where every engine call succeeds, every Box whose top
\* Pass 1 set to a row target still has that top in the engine after
\* Pass 1b, unless Pass 1b moved it as the content box to the header's
\* current bottom: Pass 1b writes back no coordinate read before Pass 1.
C27_Pass1NotUndone ==
    (AfterPass1b /\ failures = 0) =>
        \A k \in DOMAIN fixes :
            (/\ fixes[k].run = run
             /\ ~fixes[k].skip
             /\ eng[fixes[k].handle].object_type = "Box")
                => \/ eng[fixes[k].handle].top = fixes[k].to
                   \/ MovedAsContent(fixes[k].handle)

\* The native calls a step added
Added == SubSeq(native', Len(native) + 1, Len(native'))

\* The session holds a print job that is open
HoldsJob(p) == p.rpt.job /\ ~p.job.closed

\* C28: for any interleaving of open and close of two CrystalReport
\* sessions in one process, PECloseEngine is never called while a print
\* job opened by the other session is still open.
C28_EngineShutdown ==
    [][\A s \in {1, 2} :
          (/\ pair'[s] # pair[s]
           /\ \E i \in DOMAIN Added : Added[i].fn = "PECloseEngine")
              => \A t \in {1, 2} \ {s} : ~HoldsJob(pair[t])]_vars

CountOf(fn) == Cardinality({i \in DOMAIN native : native[i].fn = fn})

\* close() has run, at the end of the with block or by a call
SessionClosed ==
    ctl = "exited" \/ \E i \in DOMAIN calls : calls[i].op = "close"

\* C29: if constructing CrystalReport opens the engine but opening the
\* print job fails, then by the time the report is closed PECloseEngine
\* has been called once for that PEOpenEngine; every successful
\* PEOpenEngine is matched by a PECloseEngine.
C29_NoEngineLeak ==
    (SessionClosed /\ env.engine_ok) =>
        CountOf("PECloseEngine") = CountOf("PEOpenEngine")

\* The engine functions that take a print job's handle
JobFns ==
    {NativeOf(op) : op \in EngineOps}
        \cup {"PEClosePrintJob", "PESavePrintJob", "PEExportTo",
              "PESetDialogParentWindowHandle"}

\* C30: after close() no operation sequence leads to an engine function
\* being called with the closed job handle: on CrpeJob no accessor or
\* mutator called after CrpeJob.close() reaches the engine.
C30_NoCallOnClosedJob ==
    [][job.closed =>
          \A i \in DOMAIN Added : Added[i].fn \notin JobFns]_vars

====
